---- MODULE Spec2Model ----
(***************************************************************************)
(* The staged job pipeline of Go-M3u8-Telegram-Uploader (src/main.go) with *)
(* the collaborators it calls: extractor.ExtractURL, the dedup store       *)
(* (database.IsDownloaded / MarkAsDownloaded), downloader.StartDownloadTask *)
(* and MergeFiles, mediaprocess.SplitVideoWithFFmpeg.                      *)
(*                                                                         *)
(* Every goroutine is a process with a program counter; one action is one  *)
(* atomic step between two blocking points (a channel operation, a select, *)
(* a collaborator call).  A Go select with several ready cases is a        *)
(* nondeterministic choice between them.  A panic or os.Exit ends the      *)
(* whole process: crashed becomes non-empty and nothing runs any more.     *)
(***************************************************************************)
EXTENDS Integers, Sequences, FiniteSets, TLC

\* ------------------------------------------------------------------ bounds
\* Number of SubmitJob calls made on a pipeline that is never stopped (SpecRun).
MaxJobs == 2
\* Number of SubmitJob calls made on a pipeline that is stopped (Spec).
MaxStopJobs == 1
\* Config.QueueSize, the capacity NewPipeline gives each of the four queues.
QueueSize == 1
\* Config.WorkerCount ranges over 1..MaxWorkers.
MaxWorkers == 2
\* The longest segment list given to downloadSegmentsConcurrently, which is
\* also the largest number of fetch workers (SpecFetch).
MaxSegments == 2
\* The longest playlist whose merge is followed (SpecMerge).
MaxMergeSegments == 10001
\* The most lines of a manifest that is parsed (SpecParse).
MaxLines == 3

VARIABLES
    callsLeft,      \* SubmitJob calls the callers will still make
    config,         \* Config: WorkerCount, OutputDir, UploadToTG
    ctxDone,        \* p.ctx has been cancelled
    closed,         \* the queues close() has been called on
    jobQueue, downloadQueue, uploadQueue, resultQueue,
    stats,          \* PipelineStats
    submitting,     \* SubmitJob calls between the ID assignment and the select
    stopPc,         \* position of the caller of Stop
    finalStats,     \* <<snapshot>> once printFinalStats has run
    disp,           \* job dispatcher goroutine: pc and the job it holds
    dw,             \* download workers: pc and the DownloadResult being built
    up,             \* upload worker / download-only processor
    rp,             \* result processor pc
    sm,             \* stats monitor pc
    dedupStore,     \* the Redis set "downloaded_videos"
    fs,             \* the files on disk (paths)
    crashed,        \* "" or why the process died (panic, os.Exit)
    events,         \* history: <<job ID, what happened to it>>
    urlOf,          \* history: the URL of each SubmitJob call, by job ID
    batchPc,        \* main in batch mode: "submit", "wait", "exited"
    \* One call of downloader.downloadSegmentsConcurrently (SpecFetch):
    fetchIn,        \* its inputs: m = len(segments), n = concurrentSegmentsCount
    segDir,         \* the output directory: what each segment file and each
                    \* ".tmp" file holds: "absent", "partial" (some of the
                    \* body), "empty" (a whole empty body), "full"
    jobs,           \* channel jobs: [buf, closed]
    results,        \* channel results: [buf, closed]
    fed,            \* how many jobs the feeding goroutine has sent
    fw,             \* fetch workers: pc, the job held, the error returned
    errors,         \* the error list being collected ("" is nil)
    fetchPc,        \* the caller: "collect", "returned" ("idle": no call)
    progressTracker,\* the OverallProgress the call is given
    segFile0,       \* history: segFile when the call was made
    written,        \* history: the indices whose file this call put in place
    requests,       \* history: the number of http.Get calls, by index
    reported,       \* history: <<index, bytes>> of each UpdateSegment call
    handed,         \* history: how often each index was received by a worker
    \* Concurrent calls of downloader.StartDownloadTask (SpecTasks):
    RunningTasks,   \* the package variable: a slice of trackers
    tasks,          \* the calls: pc, the slice value read, the position found
    \* One call of downloader.MergeFiles (SpecMerge):
    mergeIn,        \* the number of segment files in the directory
    tsFiles,        \* the slice files: the segment files by their index
    concatLines,    \* the number of lines written to concat_list.txt
    mergePc,        \* "glob", "sort", "write", "merged" ("idle": no call)
    \* One call of downloader.parseM3U8Content (SpecParse):
    parseIn,        \* its inputs: content (the lines, as strings.Split gives
                    \* them) and baseURL, each a sequence of characters
    lineNum,        \* the number of lines the loop has been through
    segments,       \* the slice segments
    parsePc         \* "base", "loop", "returned", "error" ("idle": no call)

fetchVars == <<fetchIn, segDir, jobs, results, fed, fw, errors, fetchPc,
               progressTracker, segFile0, written, requests, reported,
               handed>>

pipelineVars == <<callsLeft, config, ctxDone, closed, jobQueue, downloadQueue,
                  uploadQueue, resultQueue, stats, submitting, stopPc,
                  finalStats, disp, dw, up, rp, sm, dedupStore, fs, crashed,
                  events, urlOf, batchPc>>

taskVars == <<RunningTasks, tasks>>

mergeVars == <<mergeIn, tsFiles, concatLines, mergePc>>

parseVars == <<parseIn, lineNum, segments, parsePc>>

downloaderVars == <<fetchVars, taskVars, mergeVars, parseVars>>

vars == <<pipelineVars, downloaderVars>>

\* ------------------------------------------------------------------- paths
\* A path is the sequence of its components; "." is <<".">> as filepath.Clean
\* returns it.

RECURSIVE CleanFrom(_, _)
CleanFrom(p, acc) ==
    IF p = <<>> THEN acc
    ELSE LET c == Head(p) IN
         IF c = "." \/ c = ""
         THEN CleanFrom(Tail(p), acc)
         ELSE IF c = ".." /\ acc # <<>> /\ acc[Len(acc)] # ".."
         THEN CleanFrom(Tail(p), SubSeq(acc, 1, Len(acc) - 1))
         ELSE CleanFrom(Tail(p), Append(acc, c))

Clean(p) == LET q == CleanFrom(p, <<>>) IN IF q = <<>> THEN <<".">> ELSE q

Join(a, b) == Clean(a \o b)

Dir(p) == IF p = <<>> THEN <<".">> ELSE Clean(SubSeq(p, 1, Len(p) - 1))

Base(p) == IF p = <<>> THEN "." ELSE p[Len(p)]

IsUnder(dir, p) ==
    \/ dir = <<".">>
    \/ Len(p) >= Len(dir) /\ SubSeq(p, 1, Len(dir)) = dir

\* -------------------------------------------------------------------- URLs
\* A raw URL string as url.Parse sees it: whether it parses, its host, the
\* components of its path, whether the path ends in "/", and its fragment.
URL(ok, host, path, slash, frag) ==
    [ok |-> ok, host |-> host, path |-> path, slash |-> slash, frag |-> frag]

NoURL == URL(FALSE, "", <<>>, FALSE, "")

URLs == { URL(TRUE, "a.example", <<"watch", "v1">>, FALSE, ""),
          URL(TRUE, "a.example", <<"watch", "v1">>, TRUE, "t10"),
          URL(TRUE, "b.example", <<"clips", "v1">>, FALSE, ""),
          URL(TRUE, "a.example", <<>>, TRUE, ""),
          URL(FALSE, "a b", <<"%zz">>, FALSE, "") }

\* extractor.ExtractURL: (canonical URL, name, err).
ExtractURL(raw) ==
    IF ~raw.ok
    THEN [url |-> NoURL, name |-> <<>>, err |-> "parse"]
    ELSE [url |-> [raw EXCEPT !.frag = ""],
          name |-> <<Base(raw.path)>>,
          err |-> ""]

\* The output directory both Dispatch and Download derive for a job.
OutputDirOf(name) ==
    IF config.OutputDir # "./" THEN Join(<<config.OutputDir>>, name) ELSE name

VideoFileOf(outputDir) == Join(outputDir, <<Base(outputDir) \o ".mp4">>)

SegmentName(i) == <<"segment_0000.ts", "segment_0001.ts", "segment_0002.ts",
                    "segment_0003.ts">>[i + 1]

\* The segment indices of a playlist (every playlist lists two segments).
SegmentIdx == {0, 1}

SegmentPath(outputDir, i) == Join(outputDir, <<SegmentName(i)>>)

TsFiles(outputDir) ==
    { f \in fs : \E i \in 0 .. 3 : f = SegmentPath(outputDir, i) }

\* ----------------------------------------------------------------- records
\* A job that is built with Status "completed" whatever status is asked for.
JobBornCompleted(id, url, status) == [ID |-> id, URL |-> url, Status |-> "completed"]

\* The Job record: ID, URL, Status.
Job(id, url, status) == [ID |-> id, URL |-> url, Status |-> status]

NoJob == Job(0, NoURL, "")

DownloadResult(job, outputDir, videoFile, error) ==
    [Job |-> job, OutputDir |-> outputDir, VideoFile |-> videoFile,
     Error |-> error]

NoResult == DownloadResult(NoJob, <<>>, <<>>, "")

UploadResult(job, outputDir, videoFile, error) ==
    [Task |-> [Job |-> job, OutputDir |-> outputDir, VideoFile |-> videoFile],
     Error |-> error]

NoUpload == UploadResult(NoJob, <<>>, <<>>, "")

\* startDownloadWorkers with an off-by-one loop: one goroutine too many.
DownloadWorkersOneMore == 1 .. (config.WorkerCount + 1)

\* Lines 262-265: startDownloadWorkers starts workers 1..WorkerCount.
DownloadWorkers == 1 .. config.WorkerCount

Alive == crashed = ""

Ev(id, what) == events' = events \cup {<<id, what>>}

\* ------------------------------------------------------------------- Init
InitWith(calls) ==
    /\ callsLeft = calls
    /\ config \in [WorkerCount : 1 .. MaxWorkers,
                   OutputDir : {"./", "out"},
                   UploadToTG : BOOLEAN]
    /\ ctxDone = FALSE
    /\ closed = {}
    /\ jobQueue = <<>>
    /\ downloadQueue = <<>>
    /\ uploadQueue = <<>>
    /\ resultQueue = <<>>
    /\ stats = [TotalJobs |-> 0, CompletedJobs |-> 0, FailedJobs |-> 0,
                ActiveDownloads |-> 0, ActiveUploads |-> 0]
    /\ submitting = {}
    /\ stopPc = "idle"
    /\ finalStats = <<>>
    /\ disp = [pc |-> "recv", job |-> NoJob]
    /\ dw = [w \in DownloadWorkers |-> [pc |-> "recv", res |-> NoResult]]
    /\ up = [pc |-> "recv", out |-> NoUpload, active |-> FALSE]
    /\ rp = "recv"
    /\ sm = "recv"
    /\ dedupStore = {}
    /\ fs = {}
    /\ crashed = ""
    /\ events = {}
    /\ urlOf = <<>>
    /\ batchPc = "submit"

\* downloader.NewOverallProgress: nothing completed, no byte downloaded.
NewOverallProgress(totalSegments) ==
    [totalSegments |-> totalSegments, completedSegments |-> 0,
     downloadedBytes |-> 0]

\* No call of downloadSegmentsConcurrently is followed.
NoFetch ==
    /\ fetchIn = [m |-> 0, n |-> 0]
    /\ segDir = <<>>
    /\ jobs = [buf |-> <<>>, closed |-> FALSE]
    /\ results = [buf |-> <<>>, closed |-> FALSE]
    /\ fed = 0
    /\ fw = <<>>
    /\ errors = <<>>
    /\ fetchPc = "idle"
    /\ progressTracker = NewOverallProgress(0)
    /\ segFile0 = <<>>
    /\ written = {}
    /\ requests = <<>>
    /\ reported = <<>>
    /\ handed = <<>>

\* No call of StartDownloadTask is followed.
NoTasks ==
    /\ RunningTasks = <<>>
    /\ tasks = <<>>

\* No call of MergeFiles is followed.
NoMerge ==
    /\ mergeIn = 0
    /\ tsFiles = <<>>
    /\ concatLines = 0
    /\ mergePc = "idle"

\* No call of parseM3U8Content is followed.
NoParse ==
    /\ parseIn = [content |-> <<>>, baseURL |-> <<>>]
    /\ lineNum = 0
    /\ segments = <<>>
    /\ parsePc = "idle"

\* A pipeline that is submitted to and stopped.
Init == InitWith(MaxStopJobs) /\ NoFetch /\ NoTasks /\ NoMerge /\ NoParse

\* A pipeline that is submitted to and never stopped.
InitRun == InitWith(MaxJobs) /\ NoFetch /\ NoTasks /\ NoMerge /\ NoParse

\* ----------------------------------------------------------------- helpers
\* A queue that takes every send, as an unbounded queue would.
HasRoomUnbounded(q) == Len(q) >= 0

\* A buffered channel of capacity QueueSize accepts a send without blocking.
HasRoom(q) == Len(q) < QueueSize

\* A membership test that never finds the key.
IsDownloadedNever(videoID) == videoID \in {}

\* database.IsDownloaded, when Redis answers.
IsDownloaded(videoID) == videoID \in dedupStore

\* A counter that is read without being incremented.
IncrementTotalNot(s) == s

\* Line 188, under the stats lock: p.stats.TotalJobs++.
IncrementTotal(s) == [s EXCEPT !.TotalJobs = @ + 1]

IncrementCompleted(s) == [s EXCEPT !.CompletedJobs = @ + 1]

IncrementFailed(s) == [s EXCEPT !.FailedJobs = @ + 1]

\* ---------------------------------------------------------------- SubmitJob
\* Lines 187-197: under the stats lock TotalJobs++ and jobID := TotalJobs, then
\* the Job is built with Status "queued".
SubmitJobBegin ==
    /\ Alive
    /\ callsLeft > 0
    /\ callsLeft' = callsLeft - 1
    /\ \E url \in URLs :
          /\ stats' = IncrementTotal(stats)
          /\ submitting' = submitting \cup {Job(stats'.TotalJobs, url, "queued")}
          /\ urlOf' = Append(urlOf, url)
    /\ IF ctxDone THEN Ev(stats'.TotalJobs, "calledAfterCancel")
                  ELSE UNCHANGED events
    /\ UNCHANGED <<config, downloaderVars, batchPc, ctxDone, closed, jobQueue, downloadQueue, uploadQueue,
                   resultQueue, stopPc, finalStats, disp, dw, up, rp, sm,
                   dedupStore, fs, crashed>>

\* Line 200: the select takes the send case; the queue is open and has room.
SubmitJobSend ==
    /\ Alive
    /\ \E job \in submitting :
          /\ "jobQueue" \notin closed
          /\ HasRoom(jobQueue)
          /\ jobQueue' = Append(jobQueue, job)
          /\ submitting' = submitting \ {job}
          /\ Ev(job.ID, "queued")
    /\ UNCHANGED <<urlOf, callsLeft, config, downloaderVars, batchPc, ctxDone, closed, downloadQueue, uploadQueue,
                   resultQueue, stats, stopPc, finalStats, disp, dw, up, rp, sm,
                   dedupStore, fs, crashed>>

\* Line 200 after close(p.jobQueue): a send on a closed channel is ready and
\* panics when the select takes it.
SubmitJobSendClosed ==
    /\ Alive
    /\ \E job \in submitting :
          /\ "jobQueue" \in closed
          /\ submitting' = submitting \ {job}
          /\ crashed' = "panic: send on closed channel"
          /\ Ev(job.ID, "panic")
    /\ UNCHANGED <<urlOf, callsLeft, config, downloaderVars, batchPc, ctxDone, closed, jobQueue, downloadQueue, uploadQueue,
                   resultQueue, stats, stopPc, finalStats, disp, dw, up, rp, sm,
                   dedupStore, fs>>

\* Line 202: the select takes <-p.ctx.Done(); the job is logged and given up.
SubmitJobRejected ==
    /\ Alive
    /\ ctxDone
    /\ \E job \in submitting :
          /\ submitting' = submitting \ {job}
          /\ Ev(job.ID, "rejected")
    /\ UNCHANGED <<urlOf, callsLeft, config, downloaderVars, batchPc, ctxDone, closed, jobQueue, downloadQueue, uploadQueue,
                   resultQueue, stats, stopPc, finalStats, disp, dw, up, rp, sm,
                   dedupStore, fs, crashed>>

\* --------------------------------------------------------------------- Stop
\* A wait group the stats monitor was never added to.
WaitGroupDoneNoMonitor ==
    /\ disp.pc = "exited"
    /\ \A w \in DownloadWorkers : dw[w].pc = "exited"
    /\ up.pc = "exited"
    /\ rp = "exited"

\* p.wg.Wait() returns once every goroutine Start added has called Done.
WaitGroupDone ==
    /\ disp.pc = "exited"
    /\ \A w \in DownloadWorkers : dw[w].pc = "exited"
    /\ up.pc = "exited"
    /\ rp = "exited"
    /\ sm = "exited"

\* The IDs of the jobs that are on one of the four queues.
QueuedIDs ==
    {jobQueue[i].ID : i \in DOMAIN jobQueue}
    \cup {downloadQueue[i].ID : i \in DOMAIN downloadQueue}
    \cup {uploadQueue[i].Job.ID : i \in DOMAIN uploadQueue}
    \cup {resultQueue[i].Task.Job.ID : i \in DOMAIN resultQueue}

\* Line 175: p.cancel().
StopCancel ==
    /\ Alive
    /\ stopPc = "idle"
    /\ ctxDone' = TRUE
    /\ stopPc' = "close"
    /\ events' = events \cup {<<id, "onQueueAtCancel">> : id \in QueuedIDs}
    /\ UNCHANGED <<urlOf, callsLeft, config, downloaderVars, batchPc, closed, jobQueue, downloadQueue, uploadQueue,
                   resultQueue, stats, submitting, finalStats, disp, dw, up, rp,
                   sm, dedupStore, fs, crashed>>

\* Line 178: close(p.jobQueue).
StopClose ==
    /\ Alive
    /\ stopPc = "close"
    /\ closed' = closed \cup {"jobQueue"}
    /\ stopPc' = "wait"
    /\ UNCHANGED <<urlOf, callsLeft, config, downloaderVars, batchPc, ctxDone, jobQueue, downloadQueue, uploadQueue,
                   resultQueue, stats, submitting, finalStats, disp, dw, up, rp,
                   sm, dedupStore, fs, crashed, events>>

\* Line 179: p.wg.Wait() returns.
StopWait ==
    /\ Alive
    /\ stopPc = "wait"
    /\ WaitGroupDone
    /\ stopPc' = "print"
    /\ UNCHANGED <<urlOf, callsLeft, config, downloaderVars, batchPc, ctxDone, closed, jobQueue, downloadQueue, uploadQueue,
                   resultQueue, stats, submitting, finalStats, disp, dw, up, rp,
                   sm, dedupStore, fs, crashed, events>>

\* Lines 181-182: printFinalStats, then Stop returns.
StopPrint ==
    /\ Alive
    /\ stopPc = "print"
    /\ finalStats' = <<stats>>
    /\ stopPc' = "returned"
    /\ UNCHANGED <<urlOf, callsLeft, config, downloaderVars, batchPc, ctxDone, closed, jobQueue, downloadQueue, uploadQueue,
                   resultQueue, stats, submitting, disp, dw, up, rp, sm,
                   dedupStore, fs, crashed, events>>

\* --------------------------------------------------------------- Dispatcher
\* Lines 218-244: a job is received and handled up to the send select.
DispatcherRecv ==
    /\ Alive
    /\ disp.pc = "recv"
    /\ jobQueue # <<>>
    /\ jobQueue' = Tail(jobQueue)
    /\ LET job == Head(jobQueue)
           x == ExtractURL(job.URL)
           outputDir == OutputDirOf(x.name)
       IN  IF x.err # ""
           THEN /\ Ev(job.ID, "dispatchFailed")
                /\ UNCHANGED <<disp, stats, crashed>>
           ELSE \E redisOk \in BOOLEAN :
                  IF ~redisOk
                  THEN /\ crashed' = "panic: IsDownloaded"
                       /\ disp' = [pc |-> "panic", job |-> job]
                       /\ Ev(job.ID, "panic")
                       /\ UNCHANGED stats
                  ELSE IF IsDownloaded(outputDir)
                  THEN /\ stats' = IncrementCompleted(stats)
                       /\ Ev(job.ID, "skipped")
                       /\ UNCHANGED <<disp, crashed>>
                  ELSE /\ disp' = [pc |-> "send",
                                   job |-> [job EXCEPT !.Status = "dispatched"]]
                       /\ Ev(job.ID, "dispatching")
                       /\ UNCHANGED <<stats, crashed>>
    /\ UNCHANGED <<urlOf, callsLeft, config, downloaderVars, batchPc, ctxDone, closed, downloadQueue, uploadQueue,
                   resultQueue, submitting, stopPc, finalStats, dw, up, rp, sm,
                   dedupStore, fs>>

\* Lines 219-222: the job queue is closed and empty; the deferred
\* close(p.downloadQueue) runs.
DispatcherQueueClosed ==
    /\ Alive
    /\ disp.pc = "recv"
    /\ jobQueue = <<>>
    /\ "jobQueue" \in closed
    /\ disp' = [pc |-> "exited", job |-> NoJob]
    /\ closed' = closed \cup {"downloadQueue"}
    /\ UNCHANGED <<urlOf, callsLeft, config, downloaderVars, batchPc, ctxDone, jobQueue, downloadQueue, uploadQueue,
                   resultQueue, stats, submitting, stopPc, finalStats, dw, up,
                   rp, sm, dedupStore, fs, crashed, events>>

\* Line 246: the job goes to the download queue.
DispatcherSend ==
    /\ Alive
    /\ disp.pc = "send"
    /\ HasRoom(downloadQueue)
    /\ downloadQueue' = Append(downloadQueue, disp.job)
    /\ disp' = [pc |-> "recv", job |-> NoJob]
    /\ UNCHANGED <<urlOf, callsLeft, config, downloaderVars, batchPc, ctxDone, closed, jobQueue, uploadQueue, resultQueue,
                   stats, submitting, stopPc, finalStats, dw, up, rp, sm,
                   dedupStore, fs, crashed, events>>

\* Lines 248-249 and 252-254: either select takes <-p.ctx.Done() and the
\* dispatcher returns (a job it holds is given up); close(p.downloadQueue).
DispatcherCtxDone ==
    /\ Alive
    /\ disp.pc \in {"recv", "send"}
    /\ ctxDone
    /\ disp' = [pc |-> "exited", job |-> NoJob]
    /\ closed' = closed \cup {"downloadQueue"}
    /\ IF disp.pc = "send" THEN Ev(disp.job.ID, "dropped")
                           ELSE UNCHANGED events
    /\ UNCHANGED <<urlOf, callsLeft, config, downloaderVars, batchPc, ctxDone, jobQueue, downloadQueue, uploadQueue,
                   resultQueue, stats, submitting, stopPc, finalStats, dw, up,
                   rp, sm, dedupStore, fs, crashed>>

\* ---------------------------------------------------------- Download workers
SetWorker(w, pc, res) == dw' = [dw EXCEPT ![w] = [pc |-> pc, res |-> res]]

\* Lines 276-326: a job is received; processDownloadJob runs up to the call
\* of the extraction collaborator.
DownloadRecv(w) ==
    /\ Alive
    /\ dw[w].pc = "recv"
    /\ downloadQueue # <<>>
    /\ downloadQueue' = Tail(downloadQueue)
    /\ stats' = [stats EXCEPT !.ActiveDownloads = @ + 1]
    /\ LET job == [Head(downloadQueue) EXCEPT !.Status = "downloading"]
           x == ExtractURL(job.URL)
           outputDir == OutputDirOf(x.name)
       IN  IF x.err # ""
           THEN SetWorker(w, "send",
                          DownloadResult(job, <<>>, <<>>, "URL extraction failed"))
           ELSE \E mkdirOk \in BOOLEAN :
                  IF config.OutputDir # "./" /\ ~mkdirOk
                  THEN SetWorker(w, "send",
                                 DownloadResult(job, <<>>, <<>>,
                                     "failed to create output directory"))
                  ELSE SetWorker(w, "extract",
                                 DownloadResult(job, outputDir, <<>>, ""))
    /\ UNCHANGED <<urlOf, callsLeft, config, downloaderVars, batchPc, ctxDone, closed, jobQueue, uploadQueue, resultQueue,
                   submitting, stopPc, finalStats, disp, up, rp, sm, dedupStore,
                   fs, crashed, events>>

\* Lines 329-344: extractor.GetVideoDetails returns an error, an empty
\* playlist URL, or a playlist URL.
DownloadExtract(w) ==
    /\ Alive
    /\ dw[w].pc = "extract"
    /\ LET res == dw[w].res IN
       /\ Ev(res.Job.ID, "extract")
       /\ \E details \in {"error", "empty", "found"} :
             CASE details = "error" ->
                    SetWorker(w, "send",
                        [res EXCEPT !.Error = "failed to get video details"])
               [] details = "empty" ->
                    SetWorker(w, "send",
                        [res EXCEPT !.Error = "no playlist.m3u8 URL found"])
               [] details = "found" ->
                    SetWorker(w, "segments",
                        [res EXCEPT !.VideoFile = VideoFileOf(res.OutputDir)])
    /\ UNCHANGED <<urlOf, callsLeft, config, downloaderVars, batchPc, ctxDone, closed, jobQueue, downloadQueue, uploadQueue,
                   resultQueue, stats, submitting, stopPc, finalStats, disp, up,
                   rp, sm, dedupStore, fs, crashed>>

\* Lines 346-354 with downloader.StartDownloadTask: skipped when the video
\* file exists; else the task exits the process when the directory cannot be
\* made, the playlist cannot be fetched or lists no segment, and otherwise
\* fetches the segments that are not on disk yet, each of which succeeds or
\* fails; it returns nothing.
DownloadSegments(w) ==
    /\ Alive
    /\ dw[w].pc = "segments"
    /\ LET res == dw[w].res
           missing == {i \in SegmentIdx : SegmentPath(res.OutputDir, i) \notin fs}
       IN  IF res.VideoFile \in fs
           THEN /\ SetWorker(w, "merge", res)
                /\ UNCHANGED <<fs, crashed, events>>
           ELSE \E task \in {"mkdir failed", "playlist fetch failed",
                             "no segments", "fetch"} :
                  IF task # "fetch"
                  THEN /\ crashed' = "os.Exit(1): " \o task
                       /\ Ev(res.Job.ID, "exit")
                       /\ UNCHANGED <<dw, fs>>
                  ELSE \E fetched \in SUBSET missing :
                         /\ fs' = fs \cup {SegmentPath(res.OutputDir, i) : i \in fetched}
                         /\ IF fetched # missing
                            THEN Ev(res.Job.ID, "segmentFailed")
                            ELSE Ev(res.Job.ID, "segmentsFetched")
                         /\ SetWorker(w, "merge", res)
                         /\ UNCHANGED crashed
    /\ UNCHANGED <<urlOf, callsLeft, config, downloaderVars, batchPc, ctxDone, closed, jobQueue, downloadQueue, uploadQueue,
                   resultQueue, stats, submitting, stopPc, finalStats, disp, up,
                   rp, sm, dedupStore>>

\* Lines 356-364 with downloader.MergeFiles: returns silently when the
\* directory holds no .ts file; panics when ffmpeg fails; else the video file
\* is written and the segment files are removed.  The job becomes "downloaded"
\* in every case the call returns.
DownloadMerge(w) ==
    /\ Alive
    /\ dw[w].pc = "merge"
    /\ LET res == dw[w].res
           files == TsFiles(res.OutputDir)
           done == [res EXCEPT !.Job.Status = "downloaded"]
       IN  IF files = {}
           THEN /\ SetWorker(w, "send", done)
                /\ Ev(res.Job.ID, "mergeNoFiles")
                /\ UNCHANGED <<fs, crashed>>
           ELSE \E ffmpegOk \in BOOLEAN :
                  IF ffmpegOk
                  THEN /\ fs' = (fs \ files) \cup {res.VideoFile}
                       /\ SetWorker(w, "send", done)
                       /\ Ev(res.Job.ID, "merged")
                       /\ UNCHANGED crashed
                  ELSE /\ crashed' = "panic: MergeFiles"
                       /\ Ev(res.Job.ID, "panic")
                       /\ UNCHANGED <<dw, fs>>
    /\ UNCHANGED <<urlOf, callsLeft, config, downloaderVars, batchPc, ctxDone, closed, jobQueue, downloadQueue, uploadQueue,
                   resultQueue, stats, submitting, stopPc, finalStats, disp, up,
                   rp, sm, dedupStore>>

\* Lines 375-385 (sendDownloadResult) and the deferred
\* incrementActiveDownloads(-1): the result goes to the upload queue; an error
\* result is counted as failed here.
DownloadSend(w) ==
    /\ Alive
    /\ dw[w].pc = "send"
    /\ HasRoom(uploadQueue)
    /\ uploadQueue' = Append(uploadQueue, dw[w].res)
    /\ stats' = LET s == [stats EXCEPT !.ActiveDownloads = @ - 1]
                IN  IF dw[w].res.Error # "" THEN IncrementFailed(s) ELSE s
    /\ SetWorker(w, "recv", NoResult)
    /\ Ev(dw[w].res.Job.ID, "downloadSent")
    /\ UNCHANGED <<urlOf, callsLeft, config, downloaderVars, batchPc, ctxDone, closed, jobQueue, downloadQueue, resultQueue,
                   submitting, stopPc, finalStats, disp, up, rp, sm, dedupStore,
                   fs, crashed>>

\* Lines 386-388: the select takes <-p.ctx.Done(); the result is given up and
\* the worker goes back to its loop.
DownloadSendCtxDone(w) ==
    /\ Alive
    /\ dw[w].pc = "send"
    /\ ctxDone
    /\ stats' = [stats EXCEPT !.ActiveDownloads = @ - 1]
    /\ SetWorker(w, "recv", NoResult)
    /\ Ev(dw[w].res.Job.ID, "dropped")
    /\ UNCHANGED <<urlOf, callsLeft, config, downloaderVars, batchPc, ctxDone, closed, jobQueue, downloadQueue, uploadQueue,
                   resultQueue, submitting, stopPc, finalStats, disp, up, rp, sm,
                   dedupStore, fs, crashed>>

\* Lines 277-280: the download queue is closed and empty.
DownloadQueueClosed(w) ==
    /\ Alive
    /\ dw[w].pc = "recv"
    /\ downloadQueue = <<>>
    /\ "downloadQueue" \in closed
    /\ SetWorker(w, "exited", NoResult)
    /\ UNCHANGED <<urlOf, callsLeft, config, downloaderVars, batchPc, ctxDone, closed, jobQueue, downloadQueue, uploadQueue,
                   resultQueue, stats, submitting, stopPc, finalStats, disp, up,
                   rp, sm, dedupStore, fs, crashed, events>>

\* Lines 284-286: the select takes <-p.ctx.Done().
DownloadCtxDone(w) ==
    /\ Alive
    /\ dw[w].pc = "recv"
    /\ ctxDone
    /\ SetWorker(w, "exited", NoResult)
    /\ UNCHANGED <<urlOf, callsLeft, config, downloaderVars, batchPc, ctxDone, closed, jobQueue, downloadQueue, uploadQueue,
                   resultQueue, stats, submitting, stopPc, finalStats, disp, up,
                   rp, sm, dedupStore, fs, crashed, events>>

\* ------------------------------------------- Upload / download-only stage
\* The video file itself as the key.
DedupKeyVideoFile(videoFile) == videoFile

\* The key MarkAsDownloaded is given: filepath.Dir of the video file.
DedupKey(videoFile) == Dir(videoFile)

\* mediaprocess.SplitVideoWithFFmpeg names part i of the video
\* <stem>_part<i><ext> in the video's directory; the stem of the video file of
\* an output directory is the directory's base name.
PartPath(videoFile, i) ==
    Join(Dir(videoFile),
         <<Base(Dir(videoFile)) \o <<"_part1.mp4", "_part2.mp4", "_part3.mp4">>[i]>>)

\* The numbers of parts the split returns.
PartCounts == {1, 2}

\* os.RemoveAll refuses a path ending in "." and removes nothing.
RemoveAll(dir) ==
    IF dir[Len(dir)] = "." THEN fs ELSE {f \in fs : ~IsUnder(dir, f)}

\* A test that takes every result for a successful one.
DownloadFailedNever(result) == result.Error # result.Error

\* Lines 457 and 419: result.Error != nil.
DownloadFailed(result) == result.Error # ""

\* Lines 452-466 and 479-493 (remote mode): an error result is passed on;
\* for any other, processUploadTask starts.
UploadRecv ==
    /\ Alive
    /\ config.UploadToTG
    /\ up.pc = "recv"
    /\ uploadQueue # <<>>
    /\ uploadQueue' = Tail(uploadQueue)
    /\ LET result == Head(uploadQueue) IN
       IF DownloadFailed(result)
       THEN /\ up' = [pc |-> "send", active |-> FALSE,
                      out |-> UploadResult(result.Job, <<>>, <<>>, result.Error)]
            /\ UNCHANGED stats
       ELSE /\ up' = [pc |-> "process", active |-> TRUE,
                      out |-> UploadResult([result.Job EXCEPT !.Status = "uploading"],
                                           result.OutputDir, result.VideoFile, "")]
            /\ stats' = [stats EXCEPT !.ActiveUploads = @ + 1]
    /\ UNCHANGED <<urlOf, callsLeft, config, downloaderVars, batchPc, ctxDone, closed, jobQueue, downloadQueue, resultQueue,
                   submitting, stopPc, finalStats, disp, dw, rp, sm, dedupStore,
                   fs, crashed, events>>

\* What the history records of the call telegram.UploadVideo for part i.
UploadTag(i, ok) ==
    IF ok THEN <<"upload1ok", "upload2ok", "upload3ok">>[i]
          ELSE <<"upload1failed", "upload2failed", "upload3failed">>[i]

\* A loop that goes on to the next part after an upload error.
UploadCallsNoBreak(n, okOf, i) == {UploadTag(j, okOf[j]) : j \in i .. n}

\* Lines 507-525: the loop over mediaList from part i on; part i is uploaded,
\* and an error breaks the loop.  okOf[i] is what UploadVideo would answer
\* for part i.
RECURSIVE UploadCalls(_, _, _)
UploadCalls(n, okOf, i) ==
    IF i > n THEN {}
    ELSE IF okOf[i] THEN {UploadTag(i, TRUE)} \cup UploadCalls(n, okOf, i + 1)
    ELSE {UploadTag(i, FALSE)}

\* Lines 495-547: split (fails when the video file is missing or ffmpeg
\* fails), upload of the parts in order up to the first error, and on success
\* the cleanup, the removal of the directory and MarkAsDownloaded.  The
\* result was copied from the task before its status became "completed".
UploadProcess ==
    /\ Alive
    /\ up.pc = "process"
    /\ LET video == up.out.Task.VideoFile
           id == up.out.Task.Job.ID
           fail(error) == up' = [up EXCEPT !.pc = "send", !.out.Error = error]
       IN  IF video \notin fs
           THEN /\ fail("video splitting failed")
                /\ Ev(id, "splitFailed")
                /\ UNCHANGED <<fs, dedupStore, crashed>>
           ELSE \E n \in PartCounts, splitOk \in BOOLEAN :
                  LET mediaList == IF n = 1 THEN {video}
                                   ELSE {PartPath(video, i) : i \in 1 .. n}
                  IN  IF n > 1 /\ ~splitOk
                      THEN /\ fail("video splitting failed")
                           /\ Ev(id, "splitFailed")
                           /\ UNCHANGED <<fs, dedupStore, crashed>>
                      ELSE \E okOf \in [1 .. n -> BOOLEAN], redisOk \in BOOLEAN :
                             LET calls == UploadCalls(n, okOf, 1)
                                 did(what) ==
                                     events' = events \cup {<<id, c>> : c \in calls}
                                                      \cup {<<id, what>>}
                             IN
                             IF \E i \in 1 .. n : UploadTag(i, FALSE) \in calls
                             THEN /\ fail("upload failed")
                                  /\ fs' = fs \cup mediaList
                                  /\ did("uploadFailed")
                                  /\ UNCHANGED <<dedupStore, crashed>>
                             ELSE /\ fs' = RemoveAll(Dir(video)) \ mediaList
                                  /\ IF redisOk
                                     THEN /\ dedupStore' = dedupStore \cup {DedupKey(video)}
                                          /\ up' = [up EXCEPT !.pc = "send"]
                                          /\ did("marked")
                                          /\ UNCHANGED crashed
                                     ELSE /\ crashed' = "panic: MarkAsDownloaded"
                                          /\ did("panic")
                                          /\ UNCHANGED <<up, dedupStore>>
    /\ UNCHANGED <<urlOf, callsLeft, config, downloaderVars, batchPc, ctxDone, closed, jobQueue, downloadQueue, uploadQueue,
                   resultQueue, stats, submitting, stopPc, finalStats, disp, dw,
                   rp, sm>>

\* Lines 402-429 (local-only mode): the result is turned into an UploadResult;
\* without an error the job becomes "completed" and is marked in the store.
ProcessorRecv ==
    /\ Alive
    /\ ~config.UploadToTG
    /\ up.pc = "recv"
    /\ uploadQueue # <<>>
    /\ uploadQueue' = Tail(uploadQueue)
    /\ LET result == Head(uploadQueue)
           out == UploadResult(result.Job, result.OutputDir, result.VideoFile,
                               result.Error)
       IN  IF DownloadFailed(result)
           THEN /\ up' = [pc |-> "send", active |-> FALSE, out |-> out]
                /\ UNCHANGED <<dedupStore, crashed, events>>
           ELSE \E redisOk \in BOOLEAN :
                  IF redisOk
                  THEN /\ up' = [pc |-> "send", active |-> FALSE,
                                 out |-> [out EXCEPT !.Task.Job.Status = "completed"]]
                       /\ dedupStore' = dedupStore \cup {DedupKey(result.VideoFile)}
                       /\ Ev(result.Job.ID, "marked")
                       /\ UNCHANGED crashed
                  ELSE /\ crashed' = "panic: MarkAsDownloaded"
                       /\ up' = [pc |-> "panic", active |-> FALSE, out |-> out]
                       /\ Ev(result.Job.ID, "panic")
                       /\ UNCHANGED dedupStore
    /\ UNCHANGED <<urlOf, callsLeft, config, downloaderVars, batchPc, ctxDone, closed, jobQueue, downloadQueue, resultQueue,
                   stats, submitting, stopPc, finalStats, disp, dw, rp, sm, fs>>

\* Line 555 (sendUploadResult) and, after processUploadTask, the deferred
\* incrementActiveUploads(-1).
UploadSend ==
    /\ Alive
    /\ up.pc = "send"
    /\ HasRoom(resultQueue)
    /\ resultQueue' = Append(resultQueue, up.out)
    /\ up' = [pc |-> "recv", active |-> FALSE, out |-> NoUpload]
    /\ stats' = IF up.active THEN [stats EXCEPT !.ActiveUploads = @ - 1] ELSE stats
    /\ UNCHANGED <<urlOf, callsLeft, config, downloaderVars, batchPc, ctxDone, closed, jobQueue, downloadQueue, uploadQueue,
                   submitting, stopPc, finalStats, disp, dw, rp, sm, dedupStore,
                   fs, crashed, events>>

\* Line 556: the select takes <-p.ctx.Done(); the result is given up.
UploadSendCtxDone ==
    /\ Alive
    /\ up.pc = "send"
    /\ ctxDone
    /\ up' = [pc |-> "recv", active |-> FALSE, out |-> NoUpload]
    /\ stats' = IF up.active THEN [stats EXCEPT !.ActiveUploads = @ - 1] ELSE stats
    /\ Ev(up.out.Task.Job.ID, "dropped")
    /\ UNCHANGED <<urlOf, callsLeft, config, downloaderVars, batchPc, ctxDone, closed, jobQueue, downloadQueue, uploadQueue,
                   resultQueue, submitting, stopPc, finalStats, disp, dw, rp, sm,
                   dedupStore, fs, crashed>>

\* Lines 470-472 and 433-435: the select takes <-p.ctx.Done(); the deferred
\* close(p.resultQueue) runs.  (The `!ok` branch of the receive is never
\* taken: no code closes p.uploadQueue.)
UploadCtxDone ==
    /\ Alive
    /\ up.pc = "recv"
    /\ ctxDone
    /\ up' = [pc |-> "exited", active |-> FALSE, out |-> NoUpload]
    /\ closed' = closed \cup {"resultQueue"}
    /\ UNCHANGED <<urlOf, callsLeft, config, downloaderVars, batchPc, ctxDone, jobQueue, downloadQueue, uploadQueue,
                   resultQueue, stats, submitting, stopPc, finalStats, disp, dw,
                   rp, sm, dedupStore, fs, crashed, events>>

\* --------------------------------------------------------- Result processor
\* Lines 570-582.
ResultRecv ==
    /\ Alive
    /\ rp = "recv"
    /\ resultQueue # <<>>
    /\ resultQueue' = Tail(resultQueue)
    /\ LET result == Head(resultQueue) IN
       IF result.Error # ""
       THEN /\ stats' = IncrementFailed(stats)
            /\ Ev(result.Task.Job.ID, "resultFailed")
       ELSE /\ stats' = IncrementCompleted(stats)
            /\ Ev(result.Task.Job.ID, "resultCompleted")
    /\ UNCHANGED <<urlOf, callsLeft, config, downloaderVars, batchPc, ctxDone, closed, jobQueue, downloadQueue, uploadQueue,
                   submitting, stopPc, finalStats, disp, dw, up, rp, sm,
                   dedupStore, fs, crashed>>

\* Lines 571-574: the result queue is closed and empty.
ResultQueueClosed ==
    /\ Alive
    /\ rp = "recv"
    /\ resultQueue = <<>>
    /\ "resultQueue" \in closed
    /\ rp' = "exited"
    /\ UNCHANGED <<urlOf, callsLeft, config, downloaderVars, batchPc, ctxDone, closed, jobQueue, downloadQueue, uploadQueue,
                   resultQueue, stats, submitting, stopPc, finalStats, disp, dw,
                   up, sm, dedupStore, fs, crashed, events>>

\* Lines 586-588.
ResultCtxDone ==
    /\ Alive
    /\ rp = "recv"
    /\ ctxDone
    /\ rp' = "exited"
    /\ UNCHANGED <<urlOf, callsLeft, config, downloaderVars, batchPc, ctxDone, closed, jobQueue, downloadQueue, uploadQueue,
                   resultQueue, stats, submitting, stopPc, finalStats, disp, dw,
                   up, sm, dedupStore, fs, crashed, events>>

\* ------------------------------------------------------------ Stats monitor
\* Lines 605-606: printStats reads the aggregate and changes nothing.
StatsTick ==
    /\ Alive
    /\ sm = "recv"
    /\ UNCHANGED vars

\* Lines 607-608.
StatsCtxDone ==
    /\ Alive
    /\ sm = "recv"
    /\ ctxDone
    /\ sm' = "exited"
    /\ UNCHANGED <<urlOf, callsLeft, config, downloaderVars, batchPc, ctxDone, closed, jobQueue, downloadQueue, uploadQueue,
                   resultQueue, stats, submitting, stopPc, finalStats, disp, dw,
                   up, rp, dedupStore, fs, crashed, events>>

\* --------------------------------------------------------------------- Spec
Next ==
    \/ SubmitJobBegin
    \/ SubmitJobSend
    \/ SubmitJobSendClosed
    \/ SubmitJobRejected
    \/ StopCancel
    \/ StopClose
    \/ StopWait
    \/ StopPrint
    \/ DispatcherRecv
    \/ DispatcherQueueClosed
    \/ DispatcherSend
    \/ DispatcherCtxDone
    \/ \E w \in DownloadWorkers : DownloadRecv(w)
    \/ \E w \in DownloadWorkers : DownloadExtract(w)
    \/ \E w \in DownloadWorkers : DownloadSegments(w)
    \/ \E w \in DownloadWorkers : DownloadMerge(w)
    \/ \E w \in DownloadWorkers : DownloadSend(w)
    \/ \E w \in DownloadWorkers : DownloadSendCtxDone(w)
    \/ \E w \in DownloadWorkers : DownloadQueueClosed(w)
    \/ \E w \in DownloadWorkers : DownloadCtxDone(w)
    \/ UploadRecv
    \/ UploadProcess
    \/ ProcessorRecv
    \/ UploadSend
    \/ UploadSendCtxDone
    \/ UploadCtxDone
    \/ ResultRecv
    \/ ResultQueueClosed
    \/ ResultCtxDone
    \/ StatsTick
    \/ StatsCtxDone

Spec == Init /\ [][Next]_vars

\* The Go scheduler runs every goroutine that can take a step: the caller of
\* Stop once it is in Stop, a SubmitJob call at its select, and each goroutine
\* Start has launched. Whether and when SubmitJob or Stop is called is up to
\* the callers.
Fairness ==
    /\ WF_vars(StopClose \/ StopWait \/ StopPrint)
    /\ WF_vars(SubmitJobSend \/ SubmitJobSendClosed \/ SubmitJobRejected)
    /\ WF_vars(DispatcherRecv \/ DispatcherQueueClosed \/ DispatcherSend
                  \/ DispatcherCtxDone)
    /\ \A w \in 1 .. MaxWorkers :
          WF_vars(/\ w \in DownloadWorkers
                  /\ \/ DownloadRecv(w) \/ DownloadExtract(w)
                     \/ DownloadSegments(w) \/ DownloadMerge(w)
                     \/ DownloadSend(w) \/ DownloadSendCtxDone(w)
                     \/ DownloadQueueClosed(w) \/ DownloadCtxDone(w))
    /\ WF_vars(UploadRecv \/ UploadProcess \/ ProcessorRecv \/ UploadSend
                  \/ UploadSendCtxDone \/ UploadCtxDone)
    /\ WF_vars(ResultRecv \/ ResultQueueClosed \/ ResultCtxDone)
    /\ WF_vars(StatsCtxDone)

SpecStop == Init /\ [][Next]_vars /\ Fairness

\* The steps of a pipeline nobody stops: the context is never cancelled and no
\* queue is closed.
NextRun ==
    \/ SubmitJobBegin
    \/ SubmitJobSend
    \/ DispatcherRecv
    \/ DispatcherSend
    \/ \E w \in DownloadWorkers : DownloadRecv(w)
    \/ \E w \in DownloadWorkers : DownloadExtract(w)
    \/ \E w \in DownloadWorkers : DownloadSegments(w)
    \/ \E w \in DownloadWorkers : DownloadMerge(w)
    \/ \E w \in DownloadWorkers : DownloadSend(w)
    \/ UploadRecv
    \/ UploadProcess
    \/ ProcessorRecv
    \/ UploadSend
    \/ ResultRecv
    \/ StatsTick

SpecRun == InitRun /\ [][NextRun]_vars

\* ------------------------------------------------------ main in batch mode
\* main.go:838, printStats:644: the jobs neither completed nor failed.
Pending(s) == s.TotalJobs - s.CompletedJobs - s.FailedJobs

\* main.go:830-832: main submits the URLs of the file one after the other; a
\* call is made when the one before it has returned.
BatchSubmit ==
    /\ batchPc = "submit"
    /\ submitting = {}
    /\ SubmitJobBegin

\* main.go:832-835: the last SubmitJob has returned and main enters the wait
\* loop.
BatchWait ==
    /\ Alive
    /\ batchPc = "submit"
    /\ callsLeft = 0
    /\ submitting = {}
    /\ batchPc' = "wait"
    /\ UNCHANGED <<urlOf, callsLeft, config, downloaderVars, ctxDone, closed, jobQueue,
                   downloadQueue, uploadQueue, resultQueue, stats, submitting,
                   stopPc, finalStats, disp, dw, up, rp, sm, dedupStore, fs,
                   crashed, events>>

\* main.go:836-844: one round of the wait loop that reads pending == 0 under
\* the stats lock and breaks; a round that reads anything else changes nothing.
BatchExit ==
    /\ Alive
    /\ batchPc = "wait"
    /\ Pending(stats) = 0
    /\ batchPc' = "exited"
    /\ UNCHANGED <<urlOf, callsLeft, config, downloaderVars, ctxDone, closed, jobQueue,
                   downloadQueue, uploadQueue, resultQueue, stats, submitting,
                   stopPc, finalStats, disp, dw, up, rp, sm, dedupStore, fs,
                   crashed, events>>

\* Batch mode on a pipeline nobody has stopped yet: main submits and waits,
\* the stages run (the deferred Stop that follows the loop is the subject of
\* Spec).
NextBatch ==
    \/ BatchSubmit
    \/ SubmitJobSend
    \/ BatchWait
    \/ BatchExit
    \/ DispatcherRecv
    \/ DispatcherSend
    \/ \E w \in DownloadWorkers : DownloadRecv(w)
    \/ \E w \in DownloadWorkers : DownloadExtract(w)
    \/ \E w \in DownloadWorkers : DownloadSegments(w)
    \/ \E w \in DownloadWorkers : DownloadMerge(w)
    \/ \E w \in DownloadWorkers : DownloadSend(w)
    \/ UploadRecv
    \/ UploadProcess
    \/ ProcessorRecv
    \/ UploadSend
    \/ ResultRecv
    \/ StatsTick

SpecBatch == InitRun /\ [][NextBatch]_vars

\* ------------------------------------------------- the segment fetch alone
\* One call downloadSegmentsConcurrently(segments, outputDir, n, tracker) with
\* len(segments) = m: a goroutine feeds the indices to the channel jobs and
\* closes it, n workers range over jobs, call downloadSegment and send its
\* answer to the channel results, a goroutine closes results when every worker
\* is done, and the caller collects the answers into the error list.  Both
\* channels have capacity m.

SegmentsOf(m) == 0 .. (m - 1)

FetchWorkers == 1 .. fetchIn.n

\* A download that writes the body to the segment file itself.
TempPathInPlace(filepath) == filepath

\* Line 73: tempFilepath := filepath + ".tmp".
TempPath(filepath) == filepath \o ".tmp"

\* The paths a fetch of m segments touches in the output directory.
SegmentFiles(m) ==
    {SegmentName(i) : i \in SegmentsOf(m)}
    \cup {TempPath(SegmentName(i)) : i \in SegmentsOf(m)}

\* The segment file of each index and the indices whose temp file is on disk.
segFile == [i \in SegmentsOf(fetchIn.m) |-> segDir[SegmentName(i)]]

tmpFile ==
    {i \in SegmentsOf(fetchIn.m) : segDir[TempPath(SegmentName(i))] # "absent"}

\* The body of segment i is i + 1 bytes long when it is not empty; this is
\* what info.Size() and bytesWritten count for a whole segment.
BodySize(i) == i + 1

Size(content, i) == IF content = "full" THEN BodySize(i) ELSE 0

\* A tracker that keeps the last byte count instead of adding it.
UpdateSegmentOverwrite(op, segmentIndex, completed, bytes) ==
    IF completed
    THEN [op EXCEPT !.completedSegments = @ + 1, !.downloadedBytes = bytes]
    ELSE op

\* Lines 167-182, under op.mu: if completed { completedSegments++;
\* downloadedBytes += bytes }.
UpdateSegment(op, segmentIndex, completed, bytes) ==
    IF completed
    THEN [op EXCEPT !.completedSegments = @ + 1, !.downloadedBytes = @ + bytes]
    ELSE op

\* A removal that leaves the file where it is.
RemoveNot(dir, path) == dir

\* os.Remove(path).
Remove(dir, path) == [dir EXCEPT ![path] = "absent"]

\* os.Rename(from, to): to holds what from held, from is gone.
Rename(dir, from, to) ==
    IF from = to THEN dir
    ELSE [dir EXCEPT ![to] = dir[from], ![from] = "absent"]

\* The call is made in a directory where each segment file is absent, empty
\* (zero bytes) or in place from an earlier run; no pipeline runs.
InitFetch ==
    /\ InitWith(0)
    /\ config = [WorkerCount |-> 1, OutputDir |-> "./", UploadToTG |-> FALSE]
    /\ \E m \in 1 .. MaxSegments, n \in 1 .. MaxSegments :
          /\ fetchIn = [m |-> m, n |-> n]
          /\ \E files \in [SegmentsOf(m) -> {"absent", "empty", "full"}] :
                /\ segDir = [p \in SegmentFiles(m) |->
                               IF \E i \in SegmentsOf(m) : p = SegmentName(i)
                               THEN files[CHOOSE i \in SegmentsOf(m) :
                                              p = SegmentName(i)]
                               ELSE "absent"]
                /\ segFile0 = files
          /\ fw = [w \in 1 .. n |-> [pc |-> "range", index |-> 0, err |-> ""]]
          /\ errors = [i \in SegmentsOf(m) |-> ""]
          /\ progressTracker = NewOverallProgress(m)
          /\ requests = [i \in SegmentsOf(m) |-> 0]
          /\ handed = [i \in SegmentsOf(m) |-> 0]
    /\ jobs = [buf |-> <<>>, closed |-> FALSE]
    /\ results = [buf |-> <<>>, closed |-> FALSE]
    /\ fed = 0
    /\ fetchPc = "collect"
    /\ written = {}
    /\ reported = <<>>
    /\ NoTasks
    /\ NoMerge
    /\ NoParse

\* Lines 295-300: jobs <- {segmentURL, i} for the next index.
FeedJob ==
    /\ fed < fetchIn.m
    /\ ~jobs.closed
    /\ Len(jobs.buf) < fetchIn.m
    /\ jobs' = [jobs EXCEPT !.buf = Append(@, fed)]
    /\ fed' = fed + 1
    /\ UNCHANGED <<pipelineVars, taskVars, mergeVars, parseVars, handed, fetchIn, segDir, results, fw, errors, fetchPc,
                   progressTracker, segFile0, written, requests, reported>>

\* A feeding goroutine that ends without closing jobs.
FeedCloseNever ==
    /\ fed = fetchIn.m
    /\ ~jobs.closed
    /\ UNCHANGED vars

\* Line 301: close(jobs) after the last index.
FeedClose ==
    /\ fed = fetchIn.m
    /\ ~jobs.closed
    /\ jobs' = [jobs EXCEPT !.closed = TRUE]
    /\ UNCHANGED <<pipelineVars, taskVars, mergeVars, parseVars, handed, fetchIn, segDir, results, fed, fw, errors,
                   fetchPc, progressTracker, segFile0, written, requests,
                   reported>>

\* Line 281: a worker receives a job from jobs.
FetchTake(w) ==
    /\ fw[w].pc = "range"
    /\ jobs.buf # <<>>
    /\ jobs' = [jobs EXCEPT !.buf = Tail(@)]
    /\ fw' = [fw EXCEPT ![w] = [pc |-> "download", index |-> Head(jobs.buf),
                                err |-> ""]]
    /\ handed' = [handed EXCEPT ![Head(jobs.buf)] = @ + 1]
    /\ UNCHANGED <<pipelineVars, taskVars, mergeVars, parseVars, fetchIn, segDir, results, fed, errors, fetchPc,
                   progressTracker, segFile0, written, requests, reported>>

\* A download that never finds the segment file in place.
AlreadyThereNever(size) == FALSE

\* downloadSegment, lines 57-60: the file exists and has content.
AlreadyThere(size) == size = "full"

\* downloadSegment, lines 55-78, for the job a worker holds.  A segment file
\* with content is reported to the tracker with its size and left alone.
\* Otherwise http.Get is called: the request fails (or answers a bad status,
\* or the temp file cannot be created), or the temp file is created, with
\* nothing of the body in it yet.
DownloadSegment(w) ==
    /\ fw[w].pc = "download"
    /\ LET i == fw[w].index
           filepath == SegmentName(i)
       IN
       IF AlreadyThere(segDir[filepath])
       THEN /\ progressTracker' = UpdateSegment(progressTracker, i, TRUE,
                                                Size(segDir[filepath], i))
            /\ reported' = Append(reported, <<i, Size(segDir[filepath], i)>>)
            /\ fw' = [fw EXCEPT ![w].pc = "send", ![w].err = ""]
            /\ UNCHANGED <<segDir, requests>>
       ELSE /\ requests' = [requests EXCEPT ![i] = @ + 1]
            /\ \E http \in {"failed to download segment", "created"} :
                  IF http = "created"
                  THEN /\ segDir' = [segDir EXCEPT ![TempPath(filepath)] = "partial"]
                       /\ fw' = [fw EXCEPT ![w].pc = "copy"]
                  ELSE /\ fw' = [fw EXCEPT ![w].pc = "send", ![w].err = http]
                       /\ UNCHANGED segDir
            /\ UNCHANGED <<progressTracker, reported>>
    /\ UNCHANGED <<pipelineVars, taskVars, mergeVars, parseVars, handed, fetchIn, jobs, results, fed, errors, fetchPc,
                   segFile0, written>>

\* downloadSegment, lines 80-84: io.Copy fails and the temp file is removed;
\* or the whole body, which may be empty, is in the temp file.
CopySegment(w) ==
    /\ fw[w].pc = "copy"
    /\ LET tempFilepath == TempPath(SegmentName(fw[w].index)) IN
       \E body \in {"failed to write segment", "empty", "full"} :
          IF body = "failed to write segment"
          THEN /\ segDir' = Remove(segDir, tempFilepath)
               /\ fw' = [fw EXCEPT ![w].pc = "send", ![w].err = body]
          ELSE /\ segDir' = [segDir EXCEPT ![tempFilepath] = body]
               /\ fw' = [fw EXCEPT ![w].pc = "rename"]
    /\ UNCHANGED <<pipelineVars, taskVars, mergeVars, parseVars, handed, fetchIn, jobs, results, fed, errors, fetchPc,
                   progressTracker, segFile0, written, requests, reported>>

\* A download that reports the segment to the tracker before it knows whether
\* the rename has worked.
RenameSegmentReportFirst(w) ==
    /\ fw[w].pc = "rename"
    /\ LET i == fw[w].index
           filepath == SegmentName(i)
           tempFilepath == TempPath(filepath)
           bytesWritten == Size(segDir[tempFilepath], i)
       IN
       /\ progressTracker' = UpdateSegment(progressTracker, i, TRUE, bytesWritten)
       /\ reported' = Append(reported, <<i, bytesWritten>>)
       /\ \E renamed \in BOOLEAN :
             IF renamed
             THEN /\ segDir' = Rename(segDir, tempFilepath, filepath)
                  /\ written' = written \cup {i}
                  /\ fw' = [fw EXCEPT ![w].pc = "send", ![w].err = ""]
             ELSE /\ segDir' = Remove(segDir, tempFilepath)
                  /\ fw' = [fw EXCEPT ![w].pc = "send",
                                      ![w].err = "failed to move temp file"]
                  /\ UNCHANGED written
    /\ UNCHANGED <<pipelineVars, taskVars, mergeVars, parseVars, handed, fetchIn, jobs, results, fed, errors, fetchPc,
                   segFile0, requests>>

\* downloadSegment, lines 87-97: the temp file is renamed to the segment file
\* and the bytes written are reported to the tracker; or the rename fails and
\* the temp file is removed.
RenameSegment(w) ==
    /\ fw[w].pc = "rename"
    /\ LET i == fw[w].index
           filepath == SegmentName(i)
           tempFilepath == TempPath(filepath)
           bytesWritten == Size(segDir[tempFilepath], i)
       IN
       \E renamed \in BOOLEAN :
          IF renamed
          THEN /\ segDir' = Rename(segDir, tempFilepath, filepath)
               /\ written' = written \cup {i}
               /\ progressTracker' = UpdateSegment(progressTracker, i, TRUE,
                                                   bytesWritten)
               /\ reported' = Append(reported, <<i, bytesWritten>>)
               /\ fw' = [fw EXCEPT ![w].pc = "send", ![w].err = ""]
          ELSE /\ segDir' = Remove(segDir, tempFilepath)
               /\ fw' = [fw EXCEPT ![w].pc = "send",
                                   ![w].err = "failed to move temp file"]
               /\ UNCHANGED <<written, progressTracker, reported>>
    /\ UNCHANGED <<pipelineVars, taskVars, mergeVars, parseVars, handed, fetchIn, jobs, results, fed, errors, fetchPc,
                   segFile0, requests>>

\* A worker that calls downloadSegment a second time when the first call has
\* returned an error.
FetchSendRetry(w) ==
    /\ fw[w].pc = "send"
    /\ IF fw[w].err # "" /\ requests[fw[w].index] < 2
       THEN /\ fw' = [fw EXCEPT ![w].pc = "download", ![w].err = ""]
            /\ UNCHANGED results
       ELSE /\ ~results.closed
            /\ Len(results.buf) < fetchIn.m
            /\ results' = [results EXCEPT
                              !.buf = Append(@, [index |-> fw[w].index,
                                                 err |-> fw[w].err])]
            /\ fw' = [fw EXCEPT ![w] = [pc |-> "range", index |-> 0, err |-> ""]]
    /\ UNCHANGED <<pipelineVars, taskVars, mergeVars, parseVars, handed, fetchIn, segDir, jobs, fed, errors, fetchPc,
                   progressTracker, segFile0, written, requests, reported>>

\* Lines 285-288: results <- {job.index, err}.
FetchSend(w) ==
    /\ fw[w].pc = "send"
    /\ ~results.closed
    /\ Len(results.buf) < fetchIn.m
    /\ results' = [results EXCEPT
                      !.buf = Append(@, [index |-> fw[w].index, err |-> fw[w].err])]
    /\ fw' = [fw EXCEPT ![w] = [pc |-> "range", index |-> 0, err |-> ""]]
    /\ UNCHANGED <<pipelineVars, taskVars, mergeVars, parseVars, handed, fetchIn, segDir, jobs, fed, errors, fetchPc,
                   progressTracker, segFile0, written, requests, reported>>

\* Lines 280-281: jobs is closed and empty; the range loop ends, wg.Done().
FetchDone(w) ==
    /\ fw[w].pc = "range"
    /\ jobs.buf = <<>>
    /\ jobs.closed
    /\ fw' = [fw EXCEPT ![w].pc = "done"]
    /\ UNCHANGED <<pipelineVars, taskVars, mergeVars, parseVars, handed, fetchIn, segDir, jobs, results, fed, errors,
                   fetchPc, progressTracker, segFile0, written, requests,
                   reported>>

\* Lines 305-308: wg.Wait() returns, close(results).
CloseResults ==
    /\ fetchPc # "idle"
    /\ \A w \in FetchWorkers : fw[w].pc = "done"
    /\ ~results.closed
    /\ results' = [results EXCEPT !.closed = TRUE]
    /\ UNCHANGED <<pipelineVars, taskVars, mergeVars, parseVars, handed, fetchIn, segDir, jobs, fed, fw, errors, fetchPc,
                   progressTracker, segFile0, written, requests, reported>>

\* A collector that keeps none of the errors.
SetErrorNever(errs, i, err) == errs

\* Lines 313-315: if result.err != nil { errors[result.index] = result.err }.
SetError(errs, i, err) == IF err # "" THEN [errs EXCEPT ![i] = err] ELSE errs

\* A caller that returns the error list at the first error it receives.
CollectReturnOnError ==
    /\ fetchPc = "collect"
    /\ results.buf # <<>>
    /\ results' = [results EXCEPT !.buf = Tail(@)]
    /\ errors' = SetError(errors, Head(results.buf).index, Head(results.buf).err)
    /\ fetchPc' = IF Head(results.buf).err # "" THEN "returned" ELSE fetchPc
    /\ UNCHANGED <<pipelineVars, taskVars, mergeVars, parseVars, handed, fetchIn, segDir, jobs, fed, fw,
                   progressTracker, segFile0, written, requests, reported>>

\* Lines 312-316: the caller receives one answer.
Collect ==
    /\ fetchPc = "collect"
    /\ results.buf # <<>>
    /\ results' = [results EXCEPT !.buf = Tail(@)]
    /\ errors' = SetError(errors, Head(results.buf).index, Head(results.buf).err)
    /\ UNCHANGED <<pipelineVars, taskVars, mergeVars, parseVars, handed, fetchIn, segDir, jobs, fed, fw, fetchPc,
                   progressTracker, segFile0, written, requests, reported>>

\* Lines 312 and 318: results is closed and empty; return errors.
FetchReturn ==
    /\ fetchPc = "collect"
    /\ results.buf = <<>>
    /\ results.closed
    /\ fetchPc' = "returned"
    /\ UNCHANGED <<pipelineVars, taskVars, mergeVars, parseVars, handed, fetchIn, segDir, jobs, results, fed, fw, errors,
                   progressTracker, segFile0, written, requests, reported>>

NextFetch ==
    \/ FeedJob
    \/ FeedClose
    \/ \E w \in FetchWorkers : FetchTake(w)
    \/ \E w \in FetchWorkers : DownloadSegment(w)
    \/ \E w \in FetchWorkers : CopySegment(w)
    \/ \E w \in FetchWorkers : RenameSegment(w)
    \/ \E w \in FetchWorkers : FetchSend(w)
    \/ \E w \in FetchWorkers : FetchDone(w)
    \/ CloseResults
    \/ Collect
    \/ FetchReturn

SpecFetch == InitFetch /\ [][NextFetch]_vars

\* The Go scheduler runs every goroutine of the call that can take a step:
\* the feeding goroutine, each worker (every request returns), the goroutine
\* that closes results, and the caller.
FairnessFetch ==
    /\ WF_vars(FeedJob \/ FeedClose)
    /\ \A w \in 1 .. MaxSegments :
          WF_vars(/\ w \in FetchWorkers
                  /\ \/ FetchTake(w) \/ DownloadSegment(w) \/ CopySegment(w)
                     \/ RenameSegment(w) \/ FetchSend(w) \/ FetchDone(w))
    /\ WF_vars(CloseResults)
    /\ WF_vars(Collect \/ FetchReturn)

SpecFetchFair == InitFetch /\ [][NextFetch]_vars /\ FairnessFetch

\* ------------------------------------------------ the registry RunningTasks
\* The download workers of a pipeline call StartDownloadTask concurrently.
\* Each call makes its own tracker, appends it to the package variable
\* RunningTasks (line 363) and removes it again in a deferred function (lines
\* 364-371).  No lock guards RunningTasks: a statement that reads and writes
\* it is a read step and a write step, and the steps of the concurrent calls
\* interleave.  A tracker is named by the worker that made it.

TaskWorkers == DOMAIN tasks

\* The position of a tracker in a slice, 0 when it is not there (lines
\* 365-366).
IndexOf(slice, tracker) ==
    IF \E k \in DOMAIN slice : slice[k] = tracker
    THEN CHOOSE k \in DOMAIN slice :
            slice[k] = tracker /\ \A j \in DOMAIN slice : slice[j] = tracker => k <= j
    ELSE 0

\* append(slice[:i], slice[i+1:]...): the slice without its element at
\* position k.
RemoveAt(slice, k) ==
    [j \in 1 .. (Len(slice) - 1) |-> IF j < k THEN slice[j] ELSE slice[j + 1]]

InitTasks ==
    /\ InitWith(0)
    /\ config = [WorkerCount |-> 1, OutputDir |-> "./", UploadToTG |-> FALSE]
    /\ NoFetch
    /\ NoMerge
    /\ NoParse
    /\ RunningTasks = <<>>
    /\ \E n \in 1 .. MaxWorkers :
          tasks = [w \in 1 .. n |-> [pc |-> "start", slice |-> <<>>, i |-> 0]]

TasksAlive == \A w \in TaskWorkers : tasks[w].pc # "panic"

\* Line 363, the read: the operand RunningTasks of append is evaluated.
TaskAppendRead(w) ==
    /\ TasksAlive
    /\ tasks[w].pc = "start"
    /\ tasks' = [tasks EXCEPT ![w].pc = "append", ![w].slice = RunningTasks]
    /\ UNCHANGED <<pipelineVars, fetchVars, mergeVars, parseVars, RunningTasks>>

\* Line 363, the write: RunningTasks = append(<what was read>, progressTracker).
TaskAppendWrite(w) ==
    /\ TasksAlive
    /\ tasks[w].pc = "append"
    /\ RunningTasks' = Append(tasks[w].slice, w)
    /\ tasks' = [tasks EXCEPT ![w].pc = "fetch", ![w].slice = <<>>]
    /\ UNCHANGED <<pipelineVars, fetchVars, mergeVars, parseVars>>

\* Lines 374-414 are done and the deferred function runs its loop (lines
\* 365-366) over RunningTasks as it is now: the tracker is found at a position
\* or the loop ends without finding it.
TaskRange(w) ==
    /\ TasksAlive
    /\ tasks[w].pc = "fetch"
    /\ LET i == IndexOf(RunningTasks, w) IN
       tasks' = [tasks EXCEPT ![w].pc = IF i = 0 THEN "done" ELSE "remove",
                            ![w].i = i]
    /\ UNCHANGED <<pipelineVars, fetchVars, mergeVars, parseVars, RunningTasks>>

\* Line 367, the read: RunningTasks[:i] and RunningTasks[i+1:] are taken of
\* RunningTasks as it is now; the slice expression panics when the slice has
\* become shorter than i+1.
TaskRemoveRead(w) ==
    /\ TasksAlive
    /\ tasks[w].pc = "remove"
    /\ IF tasks[w].i <= Len(RunningTasks)
       THEN tasks' = [tasks EXCEPT ![w].pc = "store",
                                 ![w].slice = RemoveAt(RunningTasks, tasks[w].i)]
       ELSE tasks' = [tasks EXCEPT ![w].pc = "panic"]
    /\ UNCHANGED <<pipelineVars, fetchVars, mergeVars, parseVars, RunningTasks>>

\* Line 367, the write: RunningTasks = <the shortened slice>.
TaskRemoveWrite(w) ==
    /\ TasksAlive
    /\ tasks[w].pc = "store"
    /\ RunningTasks' = tasks[w].slice
    /\ tasks' = [tasks EXCEPT ![w].pc = "done", ![w].slice = <<>>, ![w].i = 0]
    /\ UNCHANGED <<pipelineVars, fetchVars, mergeVars, parseVars>>

NextTasks ==
    \/ \E w \in TaskWorkers : TaskAppendRead(w)
    \/ \E w \in TaskWorkers : TaskAppendWrite(w)
    \/ \E w \in TaskWorkers : TaskRange(w)
    \/ \E w \in TaskWorkers : TaskRemoveRead(w)
    \/ \E w \in TaskWorkers : TaskRemoveWrite(w)

SpecTasks == InitTasks /\ [][NextTasks]_vars

\* --------------------------------------------------------- the merge alone
\* One call of downloader.MergeFiles in a directory that holds the files of
\* the segments 0..m-1 of a playlist, as a fetch without error leaves them.
\* A file name is the sequence of its bytes; a file is known by the index of
\* its segment.

\* The decimal digits of n, as bytes ("0" is 48).
RECURSIVE Decimal(_)
Decimal(n) ==
    IF n < 10 THEN <<48 + n>> ELSE Append(Decimal(n \div 10), 48 + (n % 10))

\* The verb %04d pads with zeros to four bytes and never cuts.
RECURSIVE ZeroPad(_, _)
ZeroPad(digits, width) ==
    IF Len(digits) < width THEN ZeroPad(<<48>> \o digits, width) ELSE digits

\* Line 282: fmt.Sprintf("segment_%04d.ts", job.index).
SegmentFileName(index) ==
    <<115, 101, 103, 109, 101, 110, 116, 95>> \o ZeroPad(Decimal(index), 4)
        \o <<46, 116, 115>>

\* The order of Go strings: byte by byte, a proper prefix first.
RECURSIVE StringLess(_, _)
StringLess(s, t) ==
    IF t = <<>> THEN FALSE
    ELSE IF s = <<>> THEN TRUE
    ELSE IF Head(s) # Head(t) THEN Head(s) < Head(t)
    ELSE StringLess(Tail(s), Tail(t))

FileLess(a, b) == StringLess(SegmentFileName(a), SegmentFileName(b))

\* Line 430: sort.Strings(files).
SortStrings(files) == SortSeq(files, FileLess)

\* The segment counts a merge is followed for: the counts at which the last
\* index gets one more digit, and the counts before them.
MergeCounts ==
    {1, 2, 10, 11, 100, 101, 1000, 1001, MaxMergeSegments - 1, MaxMergeSegments}

InitMerge ==
    /\ InitWith(0)
    /\ config = [WorkerCount |-> 1, OutputDir |-> "./", UploadToTG |-> FALSE]
    /\ NoFetch
    /\ NoTasks
    /\ NoParse
    /\ mergeIn \in MergeCounts
    /\ tsFiles = <<>>
    /\ concatLines = 0
    /\ mergePc = "glob"

\* Line 418: filepath.Glob(outputDir/*.ts) finds the m segment files; they
\* are taken here in the order of their indices.
MergeGlob ==
    /\ mergePc = "glob"
    /\ tsFiles' = [k \in 1 .. mergeIn |-> k - 1]
    /\ mergePc' = "sort"
    /\ UNCHANGED <<pipelineVars, fetchVars, taskVars, parseVars, mergeIn, concatLines>>

\* Lines 424-430: the files are sorted by name.
MergeSort ==
    /\ mergePc = "sort"
    /\ tsFiles' = SortStrings(tsFiles)
    /\ mergePc' = "write"
    /\ UNCHANGED <<pipelineVars, fetchVars, taskVars, parseVars, mergeIn, concatLines>>

\* Lines 442-444: the next file of the sorted slice gets its line in
\* concat_list.txt.
MergeWriteLine ==
    /\ mergePc = "write"
    /\ concatLines < Len(tsFiles)
    /\ concatLines' = concatLines + 1
    /\ UNCHANGED <<pipelineVars, fetchVars, taskVars, parseVars, mergeIn, tsFiles, mergePc>>

\* Lines 448-472: ffmpeg concatenates the files in the order of the list.
MergeRun ==
    /\ mergePc = "write"
    /\ concatLines = Len(tsFiles)
    /\ mergePc' = "merged"
    /\ UNCHANGED <<pipelineVars, fetchVars, taskVars, parseVars, mergeIn, tsFiles,
                   concatLines>>

NextMerge ==
    \/ MergeGlob
    \/ MergeSort
    \/ MergeWriteLine
    \/ MergeRun

SpecMerge == InitMerge /\ [][NextMerge]_vars

\* ------------------------------------------------ the playlist parser alone
\* One call parseM3U8Content(content, baseURL).  A string is the sequence of
\* its characters.

\* unicode.IsSpace for the characters a line can hold (strings.Split has
\* taken the line feeds).
IsSpace(c) == c \in {" ", "\t", "\r"}

RECURSIVE TrimLeft(_)
TrimLeft(str) ==
    IF str # <<>> /\ IsSpace(Head(str)) THEN TrimLeft(Tail(str)) ELSE str

RECURSIVE TrimRight(_)
TrimRight(str) ==
    IF str # <<>> /\ IsSpace(str[Len(str)])
    THEN TrimRight(SubSeq(str, 1, Len(str) - 1))
    ELSE str

\* strings.TrimSpace.
TrimSpace(str) == TrimRight(TrimLeft(str))

\* strings.HasPrefix.
HasPrefix(str, prefix) ==
    Len(str) >= Len(prefix) /\ SubSeq(str, 1, Len(prefix)) = prefix

\* strings.IndexByte from position from on; 0 when c is not there.
RECURSIVE Index(_, _, _)
Index(str, c, from) ==
    IF from > Len(str) THEN 0
    ELSE IF str[from] = c THEN from
    ELSE Index(str, c, from + 1)

\* strings.LastIndex of one character; 0 when c is not there.
RECURSIVE LastIndex(_, _)
LastIndex(str, c) ==
    IF str = <<>> THEN 0
    ELSE IF str[Len(str)] = c THEN Len(str)
    ELSE LastIndex(SubSeq(str, 1, Len(str) - 1), c)

HexDigits ==
    {"0", "1", "2", "3", "4", "5", "6", "7", "8", "9",
     "a", "b", "c", "d", "e", "f", "A", "B", "C", "D", "E", "F"}

Letters ==
    {"a", "b", "c", "d", "e", "f", "g", "h", "i", "j", "k", "l", "m", "n",
     "o", "p", "q", "r", "s", "t", "u", "v", "w", "x", "y", "z"}

\* net/url.Parse returns an error for a "%" that is not followed by two hex
\* digits (invalid URL escape), for a control character, and for a colon in
\* the first path segment of a URL that has no scheme.
URLParseOK(str) ==
    /\ \A i \in DOMAIN str :
          str[i] = "%" => /\ i + 2 <= Len(str)
                          /\ str[i + 1] \in HexDigits
                          /\ str[i + 2] \in HexDigits
    /\ \A i \in DOMAIN str : str[i] \notin {"\t", "\r"}
    /\ LET colon == Index(str, ":", 1)
           slash == Index(str, "/", 1)
       IN  (colon > 0 /\ (slash = 0 \/ colon < slash))
              => /\ colon > 1
                 /\ \A i \in 1 .. (colon - 1) : str[i] \in Letters

\* The URL has a scheme: letters up to a colon.
HasScheme(str) ==
    LET colon == Index(str, ":", 1)
    IN  /\ colon > 1
        /\ \A i \in 1 .. (colon - 1) : str[i] \in Letters

\* Where the path of an absolute URL scheme://host/path starts; 0 when the
\* URL has no path.
PathStart(str) == Index(str, "/", Index(str, ":", 1) + 3)

\* url.URL.ResolveReference(rel).String() for a base scheme://host/path and a
\* reference without query or dot segments: a reference with a scheme is the
\* result; a rooted path replaces the base's path; any other path replaces
\* what follows the last slash of the base's path.
ResolveReference(base, rel) ==
    LET start == PathStart(base)
        origin == IF start = 0 THEN base ELSE SubSeq(base, 1, start - 1)
        path == IF start = 0 THEN <<"/">> ELSE SubSeq(base, start, Len(base))
        dir == SubSeq(path, 1, LastIndex(path, "/"))
    IN  IF HasScheme(rel) THEN rel
        ELSE IF rel # <<>> /\ Head(rel) = "/" THEN origin \o rel
        ELSE origin \o dir \o rel

\* The manifest URLs a call is given: one that parses and one that does not.
BaseURLs ==
    {<<"h", "t", "t", "p", ":", "/", "/", "h", "/", "d", "/", "p">>,
     <<"h", "t", "t", "p", ":", "/", "/", "h", "/", "%", "z", "z">>}

\* The lines a manifest is made of: an empty line, a tag, a relative name,
\* the same with white space around it, an absolute URL, a rooted path, a
\* name with an invalid escape, a relative name that begins with "http", a
\* tag after a blank.
ManifestLines ==
    {<<>>,
     <<"#", "E">>,
     <<"a", ".", "t", "s">>,
     <<" ", "b", ".", "t", "s", "\r">>,
     <<"h", "t", "t", "p", ":", "/", "/", "c", "/", "e">>,
     <<"/", "r">>,
     <<"%", "z", "z">>,
     <<"h", "t", "t", "p", "x">>,
     <<" ", "#">>}

\* strings.Split(content, "\n") always gives at least one line.
InitParse ==
    /\ InitWith(0)
    /\ config = [WorkerCount |-> 1, OutputDir |-> "./", UploadToTG |-> FALSE]
    /\ NoFetch
    /\ NoTasks
    /\ NoMerge
    /\ \E n \in 1 .. MaxLines :
          \E content \in [1 .. n -> ManifestLines], baseURL \in BaseURLs :
             parseIn = [content |-> content, baseURL |-> baseURL]
    /\ lineNum = 0
    /\ segments = <<>>
    /\ parsePc = "base"

\* Lines 114-119: url.Parse(baseURL); an error is returned to the caller.
ParseBase ==
    /\ parsePc = "base"
    /\ parsePc' = IF URLParseOK(parseIn.baseURL) THEN "loop" ELSE "error"
    /\ UNCHANGED <<pipelineVars, fetchVars, taskVars, mergeVars, parseIn,
                   lineNum, segments>>

\* Lines 123-143: one round of the loop over the lines.
ParseLine ==
    /\ parsePc = "loop"
    /\ lineNum < Len(parseIn.content)
    /\ lineNum' = lineNum + 1
    /\ LET line == TrimSpace(parseIn.content[lineNum + 1])
       IN  IF line = <<>> \/ HasPrefix(line, <<"#">>)
           THEN UNCHANGED segments
           ELSE IF ~HasPrefix(line, <<"h", "t", "t", "p">>)
           THEN IF ~URLParseOK(line)
                THEN UNCHANGED segments
                ELSE segments' = Append(segments,
                                        ResolveReference(parseIn.baseURL, line))
           ELSE segments' = Append(segments, line)
    /\ UNCHANGED <<pipelineVars, fetchVars, taskVars, mergeVars, parseIn,
                   parsePc>>

\* Lines 144-145: the loop is over; return segments, nil.
ParseReturn ==
    /\ parsePc = "loop"
    /\ lineNum = Len(parseIn.content)
    /\ parsePc' = "returned"
    /\ UNCHANGED <<pipelineVars, fetchVars, taskVars, mergeVars, parseIn,
                   lineNum, segments>>

NextParse ==
    \/ ParseBase
    \/ ParseLine
    \/ ParseReturn

SpecParse == InitParse /\ [][NextParse]_vars

\* ------------------------------------------------------------------- claims
JobIDs == 1 .. Len(urlOf)

Happened(id, what) == <<id, what>> \in events

AllStagesExited ==
    /\ disp.pc = "exited"
    /\ \A w \in DOMAIN dw : dw[w].pc = "exited"
    /\ up.pc = "exited"
    /\ rp = "exited"
    /\ sm = "exited"

\* C1: Stop gets past wg.Wait(), prints the final statistics and returns only
\* when the dispatcher, every download worker, the upload or download-only
\* worker, the result processor and the stats monitor have all exited.
C1_StopReturnsAfterAllStagesExited ==
    (stopPc \in {"print", "returned"} \/ finalStats # <<>>) => AllStagesExited

\* C1 witness: Stop has returned, with the final snapshot printed, on a
\* pipeline that was given a job.
C1_Witness ==
    stopPc = "returned" /\ finalStats # <<>> /\ Len(urlOf) = 1

\* C2 (as claimed): a SubmitJob call made after the cancellation neither puts
\* its job on the job queue nor panics.
C2_SubmitAfterCancelIsRejected ==
    \A id \in JobIDs :
        Happened(id, "calledAfterCancel")
            => ~Happened(id, "queued") /\ ~Happened(id, "panic")

\* C3 (as claimed): when Stop has returned, every job that was on a queue at
\* the cancellation has been consumed by the Result stage (or was completed
\* by Dispatch as already downloaded).
C3_QueuedJobsReachResult ==
    stopPc = "returned" =>
        \A id \in JobIDs :
            Happened(id, "onQueueAtCancel")
                => \/ Happened(id, "resultCompleted")
                   \/ Happened(id, "resultFailed")
                   \/ Happened(id, "skipped")

\* C4 (as claimed): when Stop has returned, the download queue, the upload
\* queue and the result queue have each been closed.
C4_OutboundQueuesClosed ==
    stopPc = "returned" =>
        {"downloadQueue", "uploadQueue", "resultQueue"} \subseteq closed

Count(q, id, IdOf(_)) == Cardinality({i \in DOMAIN q : IdOf(q[i]) = id})

JobId(j) == j.ID

ResultId(r) == r.Job.ID

UploadId(u) == u.Task.Job.ID

\* How many times job id is held by a queue, a caller or a stage.
Occurrences(id) ==
    Cardinality({j \in submitting : j.ID = id})
    + Count(jobQueue, id, JobId)
    + (IF disp.job.ID = id THEN 1 ELSE 0)
    + Count(downloadQueue, id, JobId)
    + Cardinality({w \in DOMAIN dw : dw[w].res.Job.ID = id})
    + Count(uploadQueue, id, ResultId)
    + (IF up.out.Task.Job.ID = id THEN 1 ELSE 0)
    + Count(resultQueue, id, UploadId)

\* Whether job id was ended by Dispatch or consumed by the Result stage.
Ended(id) ==
    Cardinality({t \in {"dispatchFailed", "skipped", "resultFailed",
                        "resultCompleted"} : Happened(id, t)})

C6_AtMostWorkerCountDownloading ==
    /\ Cardinality({w \in DOMAIN dw : dw[w].pc \notin {"recv", "exited"}})
           <= config.WorkerCount
    /\ stats.ActiveDownloads <= config.WorkerCount
    /\ config.WorkerCount = 1 =>
           Cardinality({id \in JobIDs : /\ Happened(id, "extract")
                                        /\ ~Happened(id, "downloadSent")}) <= 1

\* C6 witness: one worker, the first job is past its extraction call and
\* still in the worker, the second job waits on the download queue.
C6_Witness ==
    /\ config.WorkerCount = 1
    /\ \E id \in JobIDs : Happened(id, "extract") /\ ~Happened(id, "downloadSent")
    /\ downloadQueue # <<>>
    /\ crashed = ""

\* The step in which the dispatcher takes a job off the job queue.
DispatchStep ==
    disp.pc = "recv" /\ jobQueue # <<>> /\ jobQueue' = Tail(jobQueue)

CanonicalURL(raw) == ExtractURL(raw).url

\* C7: when the dispatcher takes a job whose canonical URL is that of a job
\* the Result stage has already consumed as completed (and the store
\* answers), the job is skipped and counted completed in that step; a skipped
\* job never has the extraction or the merge collaborator called for it.
C7_SecondSubmissionIsSkipped ==
    /\ [][(/\ DispatchStep
           /\ crashed' = ""
           /\ \E i \in JobIDs :
                 /\ i # Head(jobQueue).ID
                 /\ Happened(i, "resultCompleted")
                 /\ ExtractURL(urlOf[i]).err = ""
                 /\ CanonicalURL(urlOf[i]) = CanonicalURL(Head(jobQueue).URL))
          => /\ <<Head(jobQueue).ID, "skipped">> \in events'
             /\ stats'.CompletedJobs = stats.CompletedJobs + 1
             /\ disp' = disp]_vars
    /\ [](\A id \in JobIDs :
            Happened(id, "skipped")
                => /\ ~Happened(id, "extract")
                   /\ ~Happened(id, "merged")
                   /\ ~Happened(id, "mergeNoFiles"))

\* C7 witness: remote mode with a custom output directory; job 1 was
\* consumed as completed and job 2, of the same canonical URL, was skipped.
C7_Witness ==
    /\ config.UploadToTG
    /\ config.OutputDir # "./"
    /\ Len(urlOf) = 2
    /\ CanonicalURL(urlOf[1]) = CanonicalURL(urlOf[2])
    /\ Happened(1, "resultCompleted")
    /\ Happened(2, "skipped")

\* The IDs of the jobs in the Download or Upload stage or on their queues.
StageIDs ==
    {downloadQueue[i].ID : i \in DOMAIN downloadQueue}
    \cup {dw[w].res.Job.ID : w \in DOMAIN dw}
    \cup {uploadQueue[i].Job.ID : i \in DOMAIN uploadQueue}
    \cup {up.out.Task.Job.ID}
    \cup {resultQueue[i].Task.Job.ID : i \in DOMAIN resultQueue}

C9_DownloadFailureKeepsProcessAlive ==
    crashed \notin {"os.Exit(1): playlist fetch failed",
                    "os.Exit(1): no segments",
                    "panic: MergeFiles"}

\* C10 (as claimed): a job with at least one segment that failed to download
\* is never consumed by the Result stage as completed.
C10_PartialDownloadIsFailed ==
    \A id \in JobIDs :
        Happened(id, "segmentFailed") => ~Happened(id, "resultCompleted")

\* StartDownloadTask was called for job id.
FetchInvoked(id) ==
    \/ Happened(id, "segmentsFetched")
    \/ Happened(id, "segmentFailed")
    \/ Happened(id, "exit")

\* MergeFiles panicked on job id.
MergePanicked(id) == Happened(id, "panic") /\ crashed = "panic: MergeFiles"

\* MergeFiles was called for job id.
MergeInvoked(id) ==
    \/ Happened(id, "merged")
    \/ Happened(id, "mergeNoFiles")
    \/ MergePanicked(id)

ExtractionErrors == {"failed to get video details", "no playlist.m3u8 URL found"}

\* The errors processDownloadJob puts in a DownloadResult.
DownloadErrors ==
    ExtractionErrors \cup {"URL extraction failed",
                           "failed to create output directory"}

\* C11 (as claimed): every job whose download processing has come to an end,
\* whatever the outcome, has had its DownloadResult put on the upload queue;
\* and a result that carries an extraction error belongs to a job for which
\* neither StartDownloadTask nor MergeFiles was called.
C11_OneDownloadResultWhateverTheOutcome ==
    /\ \A id \in JobIDs :
          (Happened(id, "downloadSent") \/ Happened(id, "exit") \/ MergePanicked(id))
              => Happened(id, "downloadSent")
    /\ \A w \in DOMAIN dw :
          (dw[w].pc = "send" /\ dw[w].res.Error \in ExtractionErrors)
              => /\ ~FetchInvoked(dw[w].res.Job.ID)
                 /\ ~MergeInvoked(dw[w].res.Job.ID)

\* The step in which the upload worker or the download-only processor takes
\* a DownloadResult off the upload queue.
UploadTakeStep ==
    up.pc = "recv" /\ uploadQueue # <<>> /\ uploadQueue' = Tail(uploadQueue)

\* processUploadTask got as far as the split for job id.
SplitInvoked(id) ==
    \/ Happened(id, "splitFailed")
    \/ Happened(id, "uploadFailed")
    \/ Happened(id, "marked")
    \/ Happened(id, "panic") /\ crashed = "panic: MarkAsDownloaded"

\* C12: in both modes, the step that takes a DownloadResult with an error
\* hands it on as an UploadResult with the same job and the same error,
\* leaving the dedup store and the files alone; that UploadResult is put on
\* the result queue unchanged; and a job whose result carries a Download-stage
\* error is never split, uploaded or marked.
C12_ErrorResultPassesStraightThrough ==
    /\ [][(UploadTakeStep /\ Head(uploadQueue).Error # "")
          => /\ up'.pc = "send"
             /\ up'.out.Error = Head(uploadQueue).Error
             /\ up'.out.Task.Job = Head(uploadQueue).Job
             /\ dedupStore' = dedupStore
             /\ fs' = fs
             /\ crashed' = crashed]_vars
    /\ [][(up.pc = "send" /\ up' # up)
          => resultQueue' = Append(resultQueue, up.out)]_vars
    /\ [](\A i \in DOMAIN resultQueue :
            resultQueue[i].Error \in DownloadErrors
                => ~SplitInvoked(resultQueue[i].Task.Job.ID))

\* C12 witness: remote mode; an extraction error has come through to the
\* result queue.
C12_Witness ==
    /\ config.UploadToTG
    /\ resultQueue # <<>>
    /\ Head(resultQueue).Error \in ExtractionErrors
    /\ Head(resultQueue).Task.Job.Status = "downloading"

\* UploadVideo was called for part i of job id.
UploadCalled(id, i) ==
    Happened(id, UploadTag(i, TRUE)) \/ Happened(id, UploadTag(i, FALSE))

\* The UploadResults of job id that the upload worker holds ready to send or
\* that are on the result queue.
UploadResultsOf(id) ==
    {resultQueue[i] : i \in {k \in DOMAIN resultQueue :
                                resultQueue[k].Task.Job.ID = id}}
    \cup (IF up.pc = "send" /\ up.out.Task.Job.ID = id THEN {up.out} ELSE {})

\* C13: in remote mode part i + 1 of a job is uploaded only after part i was
\* uploaded successfully, so after the first upload error no further part is
\* uploaded; a job with an upload error has a result that carries the upload
\* error and is never consumed by the Result stage as completed.
C13_UploadStopsAtFirstError ==
    \A id \in JobIDs :
        /\ \A i \in 1 .. 2 :
              /\ UploadCalled(id, i + 1) => Happened(id, UploadTag(i, TRUE))
              /\ ~(Happened(id, UploadTag(i, TRUE)) /\ Happened(id, UploadTag(i, FALSE)))
              /\ Happened(id, UploadTag(i, FALSE))
                    => /\ ~UploadCalled(id, i + 1)
                       /\ \A r \in UploadResultsOf(id) : r.Error = "upload failed"
                       /\ ~Happened(id, "resultCompleted")
                       /\ ~Happened(id, "marked")
        /\ UploadCalled(id, 1) => config.UploadToTG

\* C13 witness: the first part of job 1 was uploaded, the second failed, and
\* the Result stage has consumed the job as failed.
C13_Witness ==
    /\ Happened(1, "upload1ok")
    /\ Happened(1, "upload2failed")
    /\ Happened(1, "resultFailed")

\* The files of the job whose video file is video: everything in the
\* directory of the video file.
Artifacts(files, video) == {f \in files : Dir(f) = Dir(video)}

\* The step in which processUploadTask runs for the task the upload worker
\* holds, to its return or to the end of the process.
UploadTaskStep ==
    up.pc = "process" /\ (up' # up \/ crashed' # crashed)

\* C14 (as claimed): in remote mode, when processUploadTask ends with an
\* error (split or upload failure) the dedup store is as before and every
\* file is still on disk; when the split and every upload succeeded the
\* job's key is in the dedup store and none of the job's files is on disk.
C14_MarkedAndDeletedIffAllUploaded ==
    [][(UploadTaskStep /\ config.UploadToTG)
       => LET video == up.out.Task.VideoFile
          IN  IF up'.out.Error # ""
              THEN /\ dedupStore' = dedupStore
                   /\ fs \subseteq fs'
              ELSE /\ DedupKey(video) \in dedupStore'
                   /\ Artifacts(fs', video) = {}]_vars

\* C15: in local-only mode the step that takes a DownloadResult without an
\* error (the store answering) hands it on as an UploadResult whose job is
\* "completed" and that carries no error, adds the key of the job's video
\* file to the dedup store and leaves every file on disk; in that mode
\* processUploadTask never runs: nothing is split or uploaded.
C15_LocalOnlyCompletesAndKeepsFiles ==
    /\ [][(UploadTakeStep /\ ~config.UploadToTG
              /\ Head(uploadQueue).Error = "" /\ crashed' = "")
          => LET result == Head(uploadQueue)
             IN  /\ up'.pc = "send"
                 /\ up'.out.Error = ""
                 /\ up'.out.Task.Job = [result.Job EXCEPT !.Status = "completed"]
                 /\ up'.out.Task.VideoFile = result.VideoFile
                 /\ dedupStore' = dedupStore \cup {Dir(result.VideoFile)}
                 /\ fs' = fs]_vars
    /\ [](~config.UploadToTG
            => /\ up.pc # "process"
               /\ \A id \in JobIDs :
                     /\ ~UploadCalled(id, 1)
                     /\ ~Happened(id, "splitFailed")
                     /\ ~Happened(id, "uploadFailed"))

\* C15 witness: local-only mode; job 1 was consumed by the Result stage as
\* completed, its video file is on disk and its directory is in the store.
C15_Witness ==
    /\ ~config.UploadToTG
    /\ Happened(1, "resultCompleted")
    /\ Happened(1, "merged")
    /\ \E f \in fs : Dir(f) \in dedupStore /\ f = VideoFileOf(Dir(f))

\* The Status values of the records of job id, wherever they are held.
StatusesOf(id) ==
    {j.Status : j \in {k \in submitting : k.ID = id}}
    \cup {jobQueue[i].Status : i \in {k \in DOMAIN jobQueue : jobQueue[k].ID = id}}
    \cup (IF disp.job.ID = id THEN {disp.job.Status} ELSE {})
    \cup {downloadQueue[i].Status :
              i \in {k \in DOMAIN downloadQueue : downloadQueue[k].ID = id}}
    \cup {dw[w].res.Job.Status : w \in {v \in DOMAIN dw : dw[v].res.Job.ID = id}}
    \cup {uploadQueue[i].Job.Status :
              i \in {k \in DOMAIN uploadQueue : uploadQueue[k].Job.ID = id}}
    \cup (IF up.out.Task.Job.ID = id THEN {up.out.Task.Job.Status} ELSE {})
    \cup {resultQueue[i].Task.Job.Status :
              i \in {k \in DOMAIN resultQueue : resultQueue[k].Task.Job.ID = id}}

StatusOrder ==
    <<"queued", "dispatched", "downloading", "downloaded", "uploading",
      "completed", "failed">>

StatusRank(s) == CHOOSE i \in DOMAIN StatusOrder : StatusOrder[i] = s

\* A record may keep its status, advance in the order, or become failed; it
\* never leaves completed or failed.
StatusMayFollow(s, t) ==
    \/ t = s
    \/ /\ s \notin {"completed", "failed"}
       /\ StatusRank(t) > StatusRank(s)

\* C16: every record's Status is one of the seven values, and in every step
\* the Status of each job's record either stays, or moves to a later one in
\* the order queued, dispatched, downloading, downloaded, uploading,
\* completed, failed; none moves on from completed or failed.
C16_StatusOnlyAdvances ==
    /\ [](\A id \in JobIDs :
            \A s \in StatusesOf(id) : \E i \in DOMAIN StatusOrder : StatusOrder[i] = s)
    /\ [][\A id \in JobIDs :
            \A s \in StatusesOf(id) :
                \A t \in StatusesOf(id)' : StatusMayFollow(s, t)]_vars

\* C16 witness: a job that went through the Download stage is held on the
\* result queue as completed.
C16_Witness ==
    /\ resultQueue # <<>>
    /\ Head(resultQueue).Task.Job.Status = "completed"
    /\ Happened(Head(resultQueue).Task.Job.ID, "merged")

\* C17 (as claimed): every record on the result queue, which the Result stage
\* consumes, has Status "completed" when it carries no error and "failed"
\* when it carries one.
C17_ResultRecordsAreTerminal ==
    \A i \in DOMAIN resultQueue :
        resultQueue[i].Task.Job.Status =
            (IF resultQueue[i].Error = "" THEN "completed" ELSE "failed")

\* The jobs a download worker or the upload worker is working on, each with
\* the output directory in its record.
Working ==
    {[id |-> dw[w].res.Job.ID, dir |-> dw[w].res.OutputDir] :
        w \in {v \in DOMAIN dw : dw[v].pc \in {"extract", "segments", "merge"}}}
    \cup (IF up.pc = "process"
          THEN {[id |-> up.out.Task.Job.ID, dir |-> up.out.Task.OutputDir]}
          ELSE {})

\* C18 (as claimed): two jobs that are being worked on in the Download or
\* Upload stage at the same time and were submitted with different URLs have
\* different output directories.
C18_NoSharedOutputDir ==
    \A a, b \in Working :
        (a.id # b.id /\ urlOf[a.id] # urlOf[b.id]) => a.dir # b.dir

\* C19 (as claimed): when the fetch of m segments with n workers, 1 <= n <= m,
\* has returned an error list with no error in it, the files of the indices
\* 0..m-1 are all on disk, each with content, and no temp file is left.
C19_AllSuccessLeavesNonEmptyFiles ==
    (/\ fetchPc = "returned"
     /\ fetchIn.n <= fetchIn.m
     /\ \A i \in SegmentsOf(fetchIn.m) : errors[i] = "")
        => /\ DOMAIN segFile = SegmentsOf(fetchIn.m)
           /\ \A i \in SegmentsOf(fetchIn.m) : segFile[i] = "full"
           /\ tmpFile = {}

\* C20: the error list the fetch returns has one entry for each index
\* 0..m-1; entry i is nil exactly when segment i was already in place with
\* content or this call put its file in place; for a nil entry the segment
\* file is on disk, and for an error entry this call has produced nothing:
\* the segment file is as it was before the call; no temp file is left.
C20_ErrorListMatchesFiles ==
    fetchPc = "returned"
        => /\ DOMAIN errors = SegmentsOf(fetchIn.m)
           /\ tmpFile = {}
           /\ \A i \in SegmentsOf(fetchIn.m) :
                 /\ errors[i] = "" <=> (segFile0[i] = "full" \/ i \in written)
                 /\ errors[i] = "" => segFile[i] # "absent"
                 /\ errors[i] # "" => segFile[i] = segFile0[i] /\ i \notin written

\* C20 witness: the fetch has returned; one segment was fetched by this call
\* and another failed.
C20_Witness ==
    /\ fetchPc = "returned"
    /\ \E i, j \in SegmentsOf(fetchIn.m) :
          /\ errors[i] = "" /\ i \in written /\ segFile[i] = "full"
          /\ errors[j] # "" /\ segFile[j] = "absent"

\* The fetch has returned an error list with no error in it.
FetchSucceeded ==
    /\ fetchPc = "returned"
    /\ \A i \in SegmentsOf(fetchIn.m) : errors[i] = ""

\* UpdateSegment has been called for index i with this byte count.
Reported(i, bytes) == \E k \in DOMAIN reported : reported[k] = <<i, bytes>>

\* C21: in a fetch of m segments made in a directory where some of the segment
\* files are already in place with content, no request is ever made for an
\* index whose file is in place, and that file stays as it was and is not
\* rewritten; when the fetch has returned without an error, each of the other
\* indices was requested exactly once, the tracker reports m of m segments
\* complete, and each file that was in place was reported to it with the
\* file's size.
C21_ResumeFetchesOnlyMissing ==
    /\ \A i \in SegmentsOf(fetchIn.m) :
          segFile0[i] = "full"
              => requests[i] = 0 /\ segFile[i] = "full" /\ i \notin written
    /\ FetchSucceeded
          => /\ progressTracker.totalSegments = fetchIn.m
             /\ progressTracker.completedSegments = fetchIn.m
             /\ \A i \in SegmentsOf(fetchIn.m) :
                   IF segFile0[i] = "full"
                   THEN Reported(i, BodySize(i))
                   ELSE requests[i] = 1

\* C21 witness: a fetch of two segments has returned without an error; one
\* file was in place and was not requested, the other was missing and was
\* requested and written.
C21_Witness ==
    /\ FetchSucceeded
    /\ \E i, j \in SegmentsOf(fetchIn.m) :
          /\ segFile0[i] = "full" /\ requests[i] = 0 /\ Reported(i, BodySize(i))
          /\ segFile0[j] = "absent" /\ requests[j] = 1 /\ j \in written

\* C22: at every point of a fetch, whatever has failed or is half done, each
\* segment file is either what it was when the fetch began or the whole body
\* this fetch put in place (never a part of it), and a file that holds part of
\* a body is a ".tmp" file.
C22_FinalPathNeverPartial ==
    /\ \A i \in SegmentsOf(fetchIn.m) :
          \/ segDir[SegmentName(i)] = segFile0[i] /\ i \notin written
          \/ segDir[SegmentName(i)] \in {"empty", "full"} /\ i \in written
    /\ \A path \in DOMAIN segDir :
          segDir[path] = "partial"
              => \E i \in SegmentsOf(fetchIn.m) : path = SegmentName(i) \o ".tmp"

\* C22 witness: the write of one segment has failed, the body of another is
\* partly written to its temp file, and both segment files are absent.
C22_Witness ==
    \E i, j \in SegmentsOf(fetchIn.m) :
        /\ segDir[SegmentName(i) \o ".tmp"] = "partial"
        /\ segDir[SegmentName(i)] = "absent"
        /\ errors[j] = "failed to write segment"
        /\ segDir[SegmentName(j)] = "absent"

\* The download of segment i has returned an error: a worker holds it, or it
\* is in the channel results, or it is in the error list.
SegmentFailed(i) ==
    \/ \E w \in DOMAIN fw :
          fw[w].pc = "send" /\ fw[w].index = i /\ fw[w].err # ""
    \/ \E k \in DOMAIN results.buf :
          results.buf[k].index = i /\ results.buf[k].err # ""
    \/ errors[i] # ""

C25_FailureOfOneSegmentStopsNoOther ==
    fetchPc = "returned"
        => \A j \in SegmentsOf(fetchIn.m) :
              /\ segFile0[j] # "full" => requests[j] = 1
              /\ segFile0[j] # "full" => (errors[j] = "" <=> j \in written)

\* C25 witness: a fetch with one worker has returned; an earlier segment
\* failed and a later one was requested and put in place after that.
C25_Witness ==
    /\ fetchPc = "returned"
    /\ fetchIn.n = 1
    /\ \E i, j \in SegmentsOf(fetchIn.m) :
          /\ i < j
          /\ errors[i] # ""
          /\ errors[j] = "" /\ requests[j] = 1 /\ j \in written

\* A worker's call of downloadSegment returns in this step, with or without
\* an error.
SegmentReturns(w, failed) ==
    /\ fw[w].pc \in {"download", "copy", "rename"}
    /\ fw'[w].pc = "send"
    /\ failed <=> fw'[w].err # ""

\* A step that changes the tracker: a call of downloadSegment returns without
\* an error, CompletedSegments grows by one and DownloadedBytes by the size of
\* that segment's file.
TrackerStep ==
    progressTracker' # progressTracker
        => \E w \in DOMAIN fw :
              /\ SegmentReturns(w, FALSE)
              /\ progressTracker' =
                    [progressTracker EXCEPT
                        !.completedSegments = @ + 1,
                        !.downloadedBytes =
                            @ + Size(segDir'[SegmentName(fw[w].index)],
                                     fw[w].index)]

\* C26: in a fetch with n concurrent workers CompletedSegments never exceeds
\* TotalSegments; CompletedSegments and DownloadedBytes change only in a step
\* where a segment's download returns without an error, by one segment and
\* that segment's bytes; a download that returns an error changes neither.
C26_TrackerCountsSuccessesOnly ==
    /\ [](progressTracker.completedSegments <= progressTracker.totalSegments)
    /\ [][/\ TrackerStep
          /\ \A w \in DOMAIN fw :
                SegmentReturns(w, TRUE) => progressTracker' = progressTracker]_vars

\* C26 witness: two workers are at work, one segment has failed without a
\* report to the tracker and another has been counted with its bytes.
C26_Witness ==
    /\ fetchIn.n = 2
    /\ \E i, j \in SegmentsOf(fetchIn.m) :
          /\ SegmentFailed(i)
          /\ \A k \in DOMAIN reported : reported[k][1] # i
          /\ Reported(j, BodySize(j))
          /\ progressTracker.completedSegments = 1
          /\ progressTracker.downloadedBytes = BodySize(j)

\* The sum of the byte counts UpdateSegment was called with.
RECURSIVE ReportedBytes(_)
ReportedBytes(calls) ==
    IF calls = <<>> THEN 0 ELSE Head(calls)[2] + ReportedBytes(Tail(calls))

\* C27: when a fetch has returned with no error for any of its m segments,
\* whatever the order in which the workers ran, CompletedSegments equals
\* TotalSegments (m) and DownloadedBytes is the sum of the byte counts that
\* were reported segment by segment.
C27_TrackerAddsUpAfterSuccess ==
    FetchSucceeded
        => /\ progressTracker.completedSegments = progressTracker.totalSegments
           /\ progressTracker.totalSegments = fetchIn.m
           /\ Len(reported) = fetchIn.m
           /\ progressTracker.downloadedBytes = ReportedBytes(reported)

\* C27 witness: two workers have fetched two segments, the second reported
\* before the first, and the tracker holds the bytes of both.
C27_Witness ==
    /\ FetchSucceeded
    /\ fetchIn.n = 2
    /\ written = {0, 1}
    /\ reported = <<(<<1, BodySize(1)>>), (<<0, BodySize(0)>>)>>
    /\ progressTracker.downloadedBytes = BodySize(0) + BodySize(1)

\* The segment files on disk, in whatever output directory.
SegmentFilesOnDisk ==
    {f \in fs : \E i \in 0 .. 3 : f[Len(f)] = SegmentName(i)}

\* C28 (as claimed): once the pipeline's context is cancelled no segment
\* request is started or runs to completion any more: no step taken after the
\* cancellation puts a segment file on disk.
C28_NoSegmentFetchedAfterCancel ==
    [][ctxDone => SegmentFilesOnDisk' \subseteq SegmentFilesOnDisk]_vars

\* The trackers in the registry.
Registered == {RunningTasks[k] : k \in DOMAIN RunningTasks}

\* C29 (as claimed): whatever the interleaving of the concurrent calls of
\* StartDownloadTask, the registry holds the tracker of every call that has
\* added its tracker and not yet begun to remove it, holds no tracker of a
\* call that has not added one yet or has finished, and no call has panicked.
C29_RegistryHoldsTheRunningFetches ==
    \A w \in DOMAIN tasks :
        /\ tasks[w].pc = "fetch" => w \in Registered
        /\ tasks[w].pc \in {"start", "done"} => w \notin Registered
        /\ tasks[w].pc # "panic"

\* C30 (as claimed): for every segment count m, the slice of segment files
\* sorted by name, which is the order the merge writes them to the concat list
\* in, is the order of the playlist: index 0, 1, ..., m-1.
C30_SortedNamesAreStreamOrder ==
    mergePc \in {"write", "merged"}
        => /\ Len(tsFiles) = mergeIn
           /\ \A k \in 1 .. mergeIn : tsFiles[k] = k - 1

\* The job IDs taken so far: those of the calls between the ID assignment and
\* the select, and those of the jobs something has happened to.
TakenIDs == {job.ID : job \in submitting} \cup {e[1] : e \in events}

\* C31: whenever a SubmitJob call takes its ID, also while other calls are
\* between their ID assignment and their select, the ID is strictly larger
\* than every ID taken before, so no two jobs have the same ID.
C31_JobIDsAreUniqueAndGrow ==
    [][Len(urlOf') > Len(urlOf)
          => \E job \in submitting' :
                /\ job \notin submitting
                /\ \A id \in TakenIDs : job.ID > id]_vars

\* C31 witness: two SubmitJob calls are between the ID assignment and the
\* select at the same time, with the IDs 1 and 2.
C31_Witness ==
    \E a, b \in submitting : a.ID = 1 /\ b.ID = 2

\* C32 (as claimed): in every reachable state CompletedJobs + FailedJobs is at
\* most TotalJobs, as it is when each submitted job adds at most one to one of
\* the two counters over its lifetime.
C32_CountedAtMostOnce ==
    stats.CompletedJobs + stats.FailedJobs <= stats.TotalJobs

\* Nothing is left to do: every SubmitJob call has been made and has returned,
\* the four queues are empty and every stage waits at its inbound queue.
Quiescent ==
    /\ Alive
    /\ callsLeft = 0
    /\ submitting = {}
    /\ jobQueue = <<>> /\ downloadQueue = <<>>
    /\ uploadQueue = <<>> /\ resultQueue = <<>>
    /\ disp.pc = "recv"
    /\ \A w \in DOMAIN dw : dw[w].pc = "recv"
    /\ up.pc = "recv"
    /\ rp = "recv"

\* The job was counted as completed (by Dispatch or Result) or as failed.
Counted(id) ==
    \/ Happened(id, "skipped")
    \/ Happened(id, "resultCompleted")
    \/ Happened(id, "resultFailed")

\* C33 (as claimed): with no shutdown signaled and every collaborator call
\* returned, every job SubmitJob has put on the job queue is eventually
\* counted as completed or failed: when the pipeline has nothing left to do,
\* every queued job has been counted, also one whose URL Dispatch could not
\* resolve.
C33_EveryAcceptedJobIsCounted ==
    (Quiescent /\ ~ctxDone)
        => \A id \in JobIDs : Happened(id, "queued") => Counted(id)


\* Some job is still in a queue or in the hands of a stage.
InFlight ==
    \/ jobQueue # <<>> \/ downloadQueue # <<>>
    \/ uploadQueue # <<>> \/ resultQueue # <<>>
    \/ disp.pc # "recv"
    \/ \E w \in DOMAIN dw : dw[w].pc # "recv"
    \/ up.pc # "recv" \/ rp # "recv"

\* C34 (as claimed): in batch mode the wait loop is left only when every
\* submitted job has reached a terminal state: when main breaks out of the
\* loop no job is in a queue or being processed by a stage.
C34_WaitLoopExitsOnlyWhenAllTerminal ==
    batchPc = "exited" => ~InFlight


\* C35 (as claimed): in no interleaving of SubmitJob, Stop and the stage
\* workers is a record sent on a queue that has already been closed: the
\* process never dies of a send on a closed channel.
C35_NoSendOnClosedQueue ==
    crashed # "panic: send on closed channel"


\* The process died inside a collaborator call: a call that does not return.
CollaboratorDied ==
    crashed \notin {"", "panic: send on closed channel"}

\* C36 (as claimed): once Stop is called, and provided every collaborator
\* call in progress returns, Stop eventually returns.
C36_StopEventuallyReturns ==
    (stopPc # "idle") ~> (stopPc = "returned" \/ CollaboratorDied)

\* Once Stop is called, Stop returns or the process dies: no stage worker
\* stays blocked for ever on a full or an empty queue.
StopReturnsOrProcessDies ==
    (stopPc # "idle") ~> (stopPc = "returned" \/ ~Alive)


\* The call has returned with every index received by one worker once, every
\* worker out of its loop and both channels empty.
FetchOver ==
    /\ fetchPc = "returned"
    /\ \A i \in SegmentsOf(fetchIn.m) : handed[i] = 1
    /\ \A w \in FetchWorkers : fw[w].pc = "done"
    /\ jobs.buf = <<>> /\ results.buf = <<>>

\* C37: a segment fetch over M segments with N >= 1 workers (also N > M)
\* always terminates once every request returns: no index is ever received
\* by a worker twice, and eventually the call has returned with each index
\* 0..M-1 received exactly once, all workers out of their loop and nothing
\* left on the job or the result channel.
C37_FetchTerminatesEachIndexOnce ==
    /\ [](\A i \in DOMAIN handed : handed[i] <= 1)
    /\ <>FetchOver

\* C37 happens: a fetch with more workers than segments is over.
C37_Witness ==
    FetchOver /\ fetchIn.n > fetchIn.m


\* C38 (as claimed): a job's key is added to the dedup store, and the job is
\* consumed by the Result stage as completed, only if its merged media file
\* was produced; a job whose merge found no segment file is never marked.
C38_MarkedOnlyIfMerged ==
    \A id \in JobIDs :
        (Happened(id, "marked") \/ Happened(id, "resultCompleted"))
            => Happened(id, "merged")


\* The SubmitJob calls that were rejected at the select.
RejectedIDs == {id \in JobIDs : Happened(id, "rejected")}

\* C39 (as claimed): a SubmitJob call rejected because the pipeline is
\* shutting down leaves TotalJobs as it was before the call: when no call
\* is in progress, TotalJobs is the number of calls that were not rejected.
C39_RejectedSubmitLeavesTotalJobs ==
    submitting = {}
        => stats.TotalJobs = Len(urlOf) - Cardinality(RejectedIDs)


\* The segment list the manifest stands for: its lines in file order, white
\* space around a line apart, without the empty lines and the lines that
\* start with "#"; a line with a scheme as it is, any other line resolved
\* against the manifest's URL.
RECURSIVE UriLines(_, _)
UriLines(content, baseURL) ==
    IF content = <<>> THEN <<>>
    ELSE LET line == TrimSpace(Head(content))
             rest == UriLines(Tail(content), baseURL)
         IN  IF line = <<>> \/ Head(line) = "#" THEN rest
             ELSE IF HasScheme(line) THEN <<line>> \o rest
             ELSE <<ResolveReference(baseURL, line)>> \o rest

\* C40 (as claimed): the segment list parseM3U8Content returns is exactly
\* the non-empty lines of the manifest that do not start with "#", in file
\* order (the i-th such line is segment i), a relative line resolved against
\* the manifest's own URL and an absolute one kept as it is.
C40_SegmentsAreTheUriLines ==
    parsePc = "returned"
        => segments = UriLines(parseIn.content, parseIn.baseURL)

====
